---------------------------- MODULE Spec2Model ----------------------------
(***************************************************************************)
(* Retrieval orchestration core of the M&A tax intelligence backend.       *)
(*                                                                         *)
(* Three drivers of the pipeline exist in the source and are modelled      *)
(* side by side; `driver` says which one a behaviour follows:              *)
(*   "phases"  the PhaseExecutor of orchestration/phases.py                *)
(*   "rag"     RAGOrchestrator.process_query of orchestration/orchestrator *)
(*   "graph"   the LangGraph workflow of orchestration/workflow.py         *)
(* The function tools the agents call are modelled on their own, one call  *)
(* of a tool at a time:                                                    *)
(*   "search"  BraveSearchTool.search of function_tools/brave_search.py    *)
(*   "registry" FunctionToolRegistry of function_tools/registry.py         *)
(* and so are the functions that merge document lists:                     *)
(*   "merge"   _deduplicate_documents, _consolidate_results, merge_with    *)
(* and the functions that compute a value from their arguments alone:      *)
(*   "call"    one function applied to arguments drawn from a bounded set  *)
(*                                                                         *)
(* Confidences are integers in percent (0.6 is 60).  A document is a       *)
(* record of its `id` (0 stands for a missing or empty id), the class of   *)
(* its first 200 characters of content (`content`, what hash(content[:200])*)
(* distinguishes) and its relevance score in percent (`rel`).              *)
(*                                                                         *)
(* phases.py reads and writes state.metadata, state.errors,                *)
(* state.agent_outputs and state.confidence_scores; the phases are         *)
(* modelled against the state object they are written for.                 *)
(***************************************************************************)
EXTENDS Integers, Sequences, FiniteSets, TLC

VARIABLES
    driver,              \* which driver runs the pipeline
    pc,                  \* position of the driver
    query,               \* state.query, as the lexical features the code tests
    registered,          \* keys of self.agents
    planHangs,           \* environment: the planning agent never completes
    intent,              \* state.intent: "empty" or "analyzed"
    complexity,          \* state.complexity
    strategy,            \* state.metadata['strategy']
    selected,            \* state.metadata['selected_internal_agents']
    fanout,              \* tasks / external_tasks of the running fan-out, in order
    task,                \* per agent: the asyncio task wrapping its process()
    collectIdx,          \* rag: index of the task the collector loop awaits
    agent_outputs,       \* state.agent_outputs
    confidence_scores,   \* state.confidence_scores
    vector_results,      \* rag: the vector_results dict
    errors,              \* state.errors
    quality_check,       \* state.metadata['quality_check'] / needs_external
    external_used,       \* state.metadata['external_agents_used']
    retrieved_documents, \* state.retrieved_documents
    synth,               \* how the synthesis call ended: "none", "ok", "raise"
    final_output,        \* state.metadata['final_output'] / the returned result
    needs_requery,       \* graph: state.metadata['needs_requery']
    requery_count,       \* graph: state.metadata['requery_count']
    entered,             \* history: how often each phase has been entered
    stack,               \* search tool: the frames of the running call, top last
    requests,            \* search tool: HTTP requests sent by the running call
    search_result,       \* search tool: what the call returned to its caller
    settings,            \* registry: which tools the settings enable
    registry,            \* registry: _initialized, _tool_instances, _tools
    sessions,            \* registry: every network session opened so far
    handles,             \* registry: per tool instance, the session it holds
    last_op,             \* registry: the call that ended last, and how
    singleton,           \* registry: whether _registry_instance is set
    existing,            \* merge: the document list merged into
    incoming,            \* merge: the document list merged in
    merged,              \* merge: the list the merge function returned
    merge_fn,            \* merge: the merge function applied
    merge_round,         \* merge: how often `incoming` has been merged in
    call,                \* call: the function applied, "none" before the call
    args,                \* call: the arguments of the function
    ret,                 \* call: what the function returned
    timing,              \* timing: the clock and the tasks of a timed fan-out
    net                  \* sessions: the search tool shared by concurrent tasks

searchVars == <<stack, requests, search_result>>

registryVars == <<settings, registry, sessions, handles, last_op, singleton>>

mergeVars == <<existing, incoming, merged, merge_fn, merge_round>>

\* the state of the components exercised on their own; the drivers of the
\* pipeline reach them only inside a phase or an agent's process()
callVars == <<call, args, ret>>

timingVars == <<timing>>

netVars == <<net>>

tools == <<searchVars, registryVars, mergeVars, callVars, timingVars, netVars>>

\* what a pipeline run is given and never writes
env == <<driver, query, registered, planHangs, needs_requery, tools>>

vars == <<driver, pc, query, registered, planHangs, intent, complexity, strategy,
          selected, fanout, task, collectIdx, agent_outputs,
          confidence_scores, vector_results, errors, quality_check,
          external_used, retrieved_documents, synth, final_output,
          needs_requery, requery_count, entered, stack, requests,
          search_result, settings, registry, sessions, handles, last_op,
          singleton,
          existing, incoming, merged, merge_fn, merge_round, call, args, ret,
          timing, net>>

\* the pipeline is not running while a component is exercised on its own
PipelineFrame ==
    UNCHANGED <<driver, pc, query, registered, planHangs, intent, complexity,
                strategy, selected, fanout, task, collectIdx, agent_outputs,
                confidence_scores, vector_results, errors, quality_check,
                external_used, retrieved_documents, synth, final_output,
                needs_requery, requery_count, entered>>

\* only the search tool, only the registry, only the merge state, only the
\* state of the function call changes
SearchOnly == PipelineFrame /\ UNCHANGED <<registryVars, mergeVars, callVars, timingVars, netVars>>

RegistryOnly == PipelineFrame /\ UNCHANGED <<searchVars, mergeVars, callVars, timingVars, netVars>>

MergeOnly == PipelineFrame /\ UNCHANGED <<searchVars, registryVars, callVars, timingVars, netVars>>

CallOnly == PipelineFrame /\ UNCHANGED <<searchVars, registryVars, mergeVars, timingVars, netVars>>

TimingOnly == PipelineFrame /\ UNCHANGED <<searchVars, registryVars, mergeVars, callVars, netVars>>

NetOnly == PipelineFrame /\ UNCHANGED <<searchVars, registryVars, mergeVars, callVars, timingVars>>

-----------------------------------------------------------------------------
(* Bounds of the model *)

\* the workflow graph has no bound on its requery loop; the model follows
\* the loop this many times
MaxGraphLoops == 3

-----------------------------------------------------------------------------
(* Program constants *)

CONFIDENCE_THRESHOLD == 60
MIN_DOCS_THRESHOLD == 3
SUFFICIENT_DOCS == 3
PLANNING_CONFIDENCE == 80
MAX_REQUERY_ATTEMPTS == 2

InternalAgents == {"CaseLawAgent", "RegulationAgent", "PrecedentAgent", "ExpertAgent"}
ExternalAgents == {"WebSearchAgent", "IRSAPIAgent"}
RetrievalAgents == InternalAgents \cup ExternalAgents
PlanningAgent == "QueryPlanningAgent"

\* the agents RAGOrchestrator._initialize_agents registers
RagAgents == InternalAgents \cup {PlanningAgent}
AllAgents == RetrievalAgents \cup {PlanningAgent}

Tiers == {"simple", "moderate", "complex", "expert"}

-----------------------------------------------------------------------------
(* Sequence helpers *)

Range(s) == {s[i] : i \in DOMAIN s}

Contains(s, x) == \E i \in DOMAIN s : s[i] = x

AppendIfAbsent(s, x) == IF Contains(s, x) THEN s ELSE Append(s, x)

RECURSIVE SumSeq(_)
SumSeq(s) == IF s = <<>> THEN 0 ELSE Head(s) + SumSeq(Tail(s))

RECURSIVE SumOver(_, _)
SumOver(f, keys) ==
    IF keys = {} THEN 0
    ELSE LET k == CHOOSE x \in keys : TRUE
         IN  f[k] + SumOver(f, keys \ {k})

\* d[k] = v on a Python dict
DictSet(d, k, v) == [x \in (DOMAIN d) \cup {k} |-> IF x = k THEN v ELSE d[x]]

EmptyDict == [x \in {} |-> 0]


-----------------------------------------------------------------------------
(* Documents and retrieval results *)

Doc(i, c, r) == [id |-> i, content |-> c, rel |-> r]

\* RetrievalResult(documents, confidence, metadata={"error": ...}); kind
\* tells a RetrievalResult from an exception raised out of process() and
\* from the None that _run_agent_with_timeout returns for a non-result
Result(docs, conf, err) ==
    [kind |-> "result", documents |-> docs, confidence |-> conf, error |-> err]

Raised == [kind |-> "raised", documents |-> <<>>, confidence |-> 0, error |-> "exception"]

NoneResult == [kind |-> "none", documents |-> <<>>, confidence |-> 0, error |-> "none"]

\* the documents each agent's backing store delivers when it delivers any
AgentDocs(a) ==
    CASE a = "RegulationAgent" -> <<Doc(1, 1, 90), Doc(0, 2, 80), Doc(7, 3, 75)>>
      [] a = "CaseLawAgent"    -> <<Doc(1, 4, 85), Doc(2, 2, 70), Doc(0, 5, 95)>>
      [] a = "PrecedentAgent"  -> <<Doc(3, 3, 60)>>
      [] a = "ExpertAgent"     -> <<Doc(4, 7, 88), Doc(0, 7, 50)>>
      [] a = "WebSearchAgent"  -> <<Doc(5, 8, 65), Doc(3, 9, 55), Doc(0, 2, 45)>>
      [] a = "IRSAPIAgent"     -> <<Doc(6, 10, 92)>>
      [] OTHER                 -> <<>>

\* the confidence the agent computes for those documents
AgentConf(a) ==
    CASE a = "RegulationAgent" -> 90
      [] a = "CaseLawAgent"    -> 70
      [] a = "PrecedentAgent"  -> 20
      [] a = "ExpertAgent"     -> 45
      [] a = "WebSearchAgent"  -> 55
      [] a = "IRSAPIAgent"     -> 30
      [] OTHER                 -> 0

\* what can happen inside one process() call that completes
Outcomes == {"docs", "empty", "raise"}

\* variant: process() without its except block, the exception propagates
AgentProcess_Propagates(a, outcome) ==
    CASE outcome = "docs"  -> Result(AgentDocs(a), AgentConf(a), "none")
      [] outcome = "empty" -> Result(<<>>, 0, "none")
      [] OTHER             -> Raised

\* <Agent>.process: the try block returns the result, the except block
\* returns the zero-confidence empty result with the error in its metadata
AgentProcess(a, outcome) ==
    CASE outcome = "docs"  -> Result(AgentDocs(a), AgentConf(a), "none")
      [] outcome = "empty" -> Result(<<>>, 0, "none")
      [] OTHER             -> Result(<<>>, 0, "exception")

\* variant: the substituted result is tagged as a plain failure
TimeoutResult_Untagged == Result(<<>>, 0, "exception")

\* the result substituted for an agent whose wait_for expired
TimeoutResult == Result(<<>>, 0, "timeout")

\* _run_agent_with_timeout, for a process() call that completed with `raw`
RunAgentWithTimeout(raw) ==
    CASE raw.kind = "result" -> raw
      [] raw.kind = "raised" -> Result(<<>>, 0, "exception")
      [] OTHER               -> NoneResult

\* _step2_vector_retrieval's try/except around wait_for(task)
CollectResult(raw) ==
    CASE raw.kind = "result" -> raw
      [] OTHER               -> Result(<<>>, 0, "exception")

-----------------------------------------------------------------------------
(* RetrievalResult.merge_with and PhaseExecutor._deduplicate_documents *)

\* the loop of RetrievalResult.merge_with over self.documents +
\* other.documents: a document with an id is kept when its id is new, a
\* document without an id is always kept
RECURSIVE UniqueByIdFrom(_, _, _)
UniqueByIdFrom(merged_docs, seen_ids, unique_docs) ==
    IF merged_docs = <<>> THEN unique_docs
    ELSE LET doc == Head(merged_docs)
         IN  IF doc.id # 0 /\ doc.id \notin seen_ids
             THEN UniqueByIdFrom(Tail(merged_docs), seen_ids \cup {doc.id},
                                 Append(unique_docs, doc))
             ELSE IF doc.id = 0
             THEN UniqueByIdFrom(Tail(merged_docs), seen_ids, Append(unique_docs, doc))
             ELSE UniqueByIdFrom(Tail(merged_docs), seen_ids, unique_docs)

\* the documents of RetrievalResult.merge_with
MergeWith(self_documents, other_documents) ==
    UniqueByIdFrom(self_documents \o other_documents, {}, <<>>)

\* a deduplication that compares ids only
DeduplicateDocuments_IdOnly(docs) == UniqueByIdFrom(docs, {}, <<>>)

RECURSIVE DedupFrom(_, _, _, _)
DedupFrom(docs, seen_ids, seen_content_hashes, unique_docs) ==
    IF docs = <<>> THEN unique_docs
    ELSE LET doc == Head(docs)
         IN  IF doc.id # 0 /\ doc.id \in seen_ids
             THEN DedupFrom(Tail(docs), seen_ids, seen_content_hashes, unique_docs)
             ELSE IF doc.content \in seen_content_hashes
             THEN DedupFrom(Tail(docs), seen_ids, seen_content_hashes, unique_docs)
             ELSE DedupFrom(Tail(docs),
                            IF doc.id # 0 THEN seen_ids \cup {doc.id} ELSE seen_ids,
                            seen_content_hashes \cup {doc.content},
                            Append(unique_docs, doc))

DeduplicateDocuments(docs) == DedupFrom(docs, {}, {}, <<>>)

-----------------------------------------------------------------------------
(* Queries.  A query is the record of what the code tests on it:           *)
(*   ents, kws  number of entities / keywords _analyze_intent extracts     *)
(*   words      len(query.split())                                         *)
(*   intent     _classify_intent(query)                                    *)
(*   kwDeal     a keyword is one of precedent, deal, transaction, election *)
(*   reg, case, prec   query contains regulation|section, case|ruling,     *)
(*                     precedent|similar                                   *)
(*   recent     query contains current|recent|latest|new|2024|2025         *)
(*   rates      query contains rate|deadline|form|publication|due date     *)

Q(e, k, w, i, kd, rg, cs, pr, rc, rt) ==
    [ents |-> e, kws |-> k, words |-> w, intent |-> i, kwDeal |-> kd,
     reg |-> rg, case |-> cs, prec |-> pr, recent |-> rc, rates |-> rt]

\* "is it due": no section cited, no word longer than three letters
QBare == Q(0, 0, 3, "general_guidance", FALSE, FALSE, FALSE, FALSE, FALSE, FALSE)
\* "depreciation basics"
QPlain == Q(0, 2, 2, "general_guidance", FALSE, FALSE, FALSE, FALSE, FALSE, FALSE)
\* "latest corporate tax rate"
QRecentRate == Q(0, 4, 4, "general_guidance", FALSE, FALSE, FALSE, FALSE, TRUE, TRUE)
\* "section 338 and section 368 ... election requirements ..." (12 words)
QModerate == Q(2, 6, 12, "procedural_guidance", TRUE, TRUE, FALSE, FALSE, FALSE, FALSE)
\* a 12-word precedent / ruling question citing two paragraphs by their sign
QComplex == Q(2, 7, 12, "precedent_analysis", TRUE, FALSE, TRUE, TRUE, FALSE, FALSE)
\* a 22-word transaction question citing four paragraphs by their sign
QExpert == Q(4, 9, 22, "transaction_analysis", TRUE, FALSE, FALSE, FALSE, FALSE, FALSE)

Queries == {QBare, QPlain, QRecentRate, QModerate, QComplex, QExpert}

\* variant: a query of more than 20 words scores nothing for its length
ComplexityScore_LongQueryUnscored(ents, kws, words, intent_type) ==
      (IF ents > 3 THEN 3 ELSE IF ents > 1 THEN 2 ELSE IF ents = 1 THEN 1 ELSE 0)
    + (IF kws > 8 THEN 2 ELSE IF kws > 5 THEN 1 ELSE 0)
    + (IF words > 20 THEN 0 ELSE IF words > 10 THEN 1 ELSE 0)
    + (IF intent_type \in {"transaction_analysis", "precedent_analysis"} THEN 2 ELSE 0)

\* QueryPlanningAgent._determine_complexity
ComplexityScore(ents, kws, words, intent_type) ==
      (IF ents > 3 THEN 3 ELSE IF ents > 1 THEN 2 ELSE IF ents = 1 THEN 1 ELSE 0)
    + (IF kws > 8 THEN 2 ELSE IF kws > 5 THEN 1 ELSE 0)
    + (IF words > 20 THEN 2 ELSE IF words > 10 THEN 1 ELSE 0)
    + (IF intent_type \in {"transaction_analysis", "precedent_analysis"} THEN 2 ELSE 0)

TierOfScore(score) ==
    IF score >= 7 THEN "expert"
    ELSE IF score >= 5 THEN "complex"
    ELSE IF score >= 3 THEN "moderate"
    ELSE "simple"

DetermineComplexity(q) == TierOfScore(ComplexityScore(q.ents, q.kws, q.words, q.intent))

\* QueryPlanningAgent.process: what the planner returns and leaves in
\* state.complexity; `ok` is FALSE when its try block raised
PlanningResult(ok) ==
    IF ok THEN Result(<<>>, PLANNING_CONFIDENCE, "none")
    ELSE Result(<<>>, 0, "exception")

\* variant: the planner leaves state.complexity as it found it
PlannedComplexity_Unset(ok, q, before) == before

PlannedComplexity(ok, q, before) == IF ok THEN DetermineComplexity(q) ELSE before

-----------------------------------------------------------------------------
(* Strategies and agent selection of the PhaseExecutor *)

UnsetStrategy == [set |-> FALSE, parallel_agents |-> <<>>]

StrategyOf(agents) == [set |-> TRUE, parallel_agents |-> agents]

\* PhaseExecutor._get_default_strategy
GetDefaultStrategy(c) ==
    IF c = "simple" THEN StrategyOf(<<"RegulationAgent">>)
    ELSE IF c = "moderate" THEN StrategyOf(<<"RegulationAgent", "CaseLawAgent">>)
    ELSE StrategyOf(<<"RegulationAgent", "CaseLawAgent", "PrecedentAgent", "ExpertAgent">>)

\* PhaseExecutor._get_fallback_strategy
GetFallbackStrategy == StrategyOf(<<"RegulationAgent">>)

\* PhaseExecutor._select_internal_agents
SelectInternalAgents(strat, q, c) ==
    LET base  == SelectSeq(strat.parallel_agents, LAMBDA a : a \in InternalAgents)
        s1    == IF q.reg THEN AppendIfAbsent(base, "RegulationAgent") ELSE base
        s2    == IF q.case THEN AppendIfAbsent(s1, "CaseLawAgent") ELSE s1
        s3    == IF q.prec THEN AppendIfAbsent(s2, "PrecedentAgent") ELSE s2
        s4    == IF c \in {"complex", "expert"} THEN AppendIfAbsent(s3, "ExpertAgent") ELSE s3
    IN  IF s4 = <<>> THEN <<"RegulationAgent">> ELSE s4

\* PhaseExecutor._select_external_agents
SelectExternalAgents(q, c, qc) ==
    LET e1 == IF q.recent THEN <<"WebSearchAgent">> ELSE <<>>
        e2 == IF q.rates THEN Append(e1, "IRSAPIAgent") ELSE e1
        e3 == IF c \in {"complex", "expert"} THEN AppendIfAbsent(e2, "WebSearchAgent") ELSE e2
    IN  IF qc.set /\ ~qc.sufficient_documents
        THEN AppendIfAbsent(e3, "WebSearchAgent") ELSE e3

\* RAGOrchestrator._select_agents_for_query
SelectAgentsForQuery(q, c, planned) ==
    LET base == <<"CaseLawAgent", "RegulationAgent">>
        b1   == IF c \in {"moderate", "complex", "expert"}
                THEN base \o <<"PrecedentAgent", "ExpertAgent">> ELSE base
    IN  IF planned /\ q.kwDeal THEN AppendIfAbsent(b1, "PrecedentAgent") ELSE b1

-----------------------------------------------------------------------------
(* Quality gate *)

UnsetQuality ==
    [set |-> FALSE, sufficient_documents |-> FALSE, high_confidence |-> FALSE,
     document_count |-> 0, average_confidence |-> 0,
     needs_external_enrichment |-> FALSE]

\* the average PhaseExecutor.quality_check_node computes: over the entries
\* of state.confidence_scores whose key is not an external agent
AverageConfidence(scores) ==
    LET internal_scores == {k \in DOMAIN scores : k \notin ExternalAgents}
    IN  IF internal_scores = {} THEN 0
        ELSE SumOver(scores, internal_scores) \div Cardinality(internal_scores)

\* variant: the negation of the gate is dropped
QualityCheckNode_NegationDropped(docs, scores) ==
    LET doc_count       == Len(docs)
        avg_confidence  == AverageConfidence(scores)
        sufficient_docs == doc_count >= SUFFICIENT_DOCS
        high_confidence == avg_confidence >= CONFIDENCE_THRESHOLD
    IN  [set |-> TRUE, sufficient_documents |-> sufficient_docs,
         high_confidence |-> high_confidence, document_count |-> doc_count,
         average_confidence |-> avg_confidence,
         needs_external_enrichment |-> sufficient_docs /\ high_confidence]

\* PhaseExecutor.quality_check_node
QualityCheckNode(docs, scores) ==
    LET doc_count       == Len(docs)
        avg_confidence  == AverageConfidence(scores)
        sufficient_docs == doc_count >= SUFFICIENT_DOCS
        high_confidence == avg_confidence >= CONFIDENCE_THRESHOLD
    IN  [set |-> TRUE, sufficient_documents |-> sufficient_docs,
         high_confidence |-> high_confidence, document_count |-> doc_count,
         average_confidence |-> avg_confidence,
         needs_external_enrichment |-> ~(sufficient_docs /\ high_confidence)]

\* variant: the confidence is not tested
NeedsExternalSourcing_ConfidenceIgnored(total_docs, avg_confidence, c) ==
    total_docs < MIN_DOCS_THRESHOLD \/ c = "expert"

\* RAGOrchestrator._needs_external_sourcing
NeedsExternalSourcing(total_docs, avg_confidence, c) ==
    IF total_docs < MIN_DOCS_THRESHOLD THEN TRUE
    ELSE IF avg_confidence < CONFIDENCE_THRESHOLD THEN TRUE
    ELSE IF c = "expert" THEN TRUE
    ELSE FALSE

-----------------------------------------------------------------------------
(* Outputs *)

NoOutput == [status |-> "none", errors |-> <<>>]

Err(src, msg) == [src |-> src, msg |-> msg]

\* PhaseExecutor._generate_no_results_output
GenerateNoResultsOutput(errs) == [status |-> "no_results", errors |-> errs]

\* variant: the error output is built without the error list
GenerateErrorOutput_NoErrors(errs) == [status |-> "error", errors |-> <<>>]

\* PhaseExecutor._generate_error_output
GenerateErrorOutput(errs) == [status |-> "error", errors |-> errs]

\* variant: any recorded error turns the final output into the error output
GenerateFinalOutput_ErrorsFail(errs) ==
    [status |-> IF errs = <<>> THEN "success" ELSE "error", errors |-> errs]

\* PhaseExecutor._generate_final_output: status and warnings
GenerateFinalOutput(errs) ==
    [status |-> IF errs = <<>> THEN "success" ELSE "partial", errors |-> errs]

-----------------------------------------------------------------------------
(* Tasks *)

\* a task: its state, how process() ended, what it returned, the result
\* the fan-out gets for it, and (history) its place in the order in which the
\* tasks of its fan-out ended
NoTask ==
    [st |-> "none", outcome |-> "none", raw |-> NoneResult, res |-> NoneResult,
     seq |-> 0]

PendingTask ==
    [st |-> "pending", outcome |-> "none", raw |-> NoneResult, res |-> NoneResult,
     seq |-> 0]

\* the number of tasks of the fan-out `agents` that have ended
Ended(t, agents) == Cardinality({i \in DOMAIN agents : t[agents[i]].st = "done"})

DoneTask(o, raw, res) ==
    [st |-> "done", outcome |-> o, raw |-> raw, res |-> res,
     seq |-> Ended(task, fanout) + 1]

Spawn(t, agents) == [a \in DOMAIN t |-> IF Contains(agents, a) THEN PendingTask ELSE t[a]]

\* variant: the join does not wait for the tasks
AllDone_NoWait(t, agents) == TRUE

\* asyncio.gather(*tasks) returns: every task of the fan-out has ended
AllDone(t, agents) == \A i \in DOMAIN agents : t[agents[i]].st = "done"

\* the fold of the result loop after asyncio.gather in phase3_retrieval:
\* state.agent_outputs, state.confidence_scores, state.errors, all_documents
RECURSIVE OutputsAfterJoin(_, _, _)
OutputsAfterJoin(outs, agents, t) ==
    IF agents = <<>> THEN outs
    ELSE LET a == Head(agents)
             r == t[a].res
         IN  OutputsAfterJoin(
                 DictSet(outs, a, IF r.kind = "result" THEN r
                                  ELSE Result(<<>>, 0, "Unknown error")),
                 Tail(agents), t)

RECURSIVE ScoresAfterJoin(_, _, _)
ScoresAfterJoin(scores, agents, t) ==
    IF agents = <<>> THEN scores
    ELSE LET a == Head(agents)
             r == t[a].res
         IN  ScoresAfterJoin(
                 DictSet(scores, a, IF r.kind = "result" THEN r.confidence ELSE 0),
                 Tail(agents), t)

RECURSIVE ErrorsAfterJoin(_, _, _)
ErrorsAfterJoin(errs, agents, t) ==
    IF agents = <<>> THEN errs
    ELSE LET a == Head(agents)
             r == t[a].res
         IN  ErrorsAfterJoin(
                 IF r.kind = "result" THEN errs ELSE Append(errs, Err(a, "Unknown error")),
                 Tail(agents), t)

\* the agents in the order in which their tasks ended
RECURSIVE CompletionOrder(_, _)
CompletionOrder(agents, t) ==
    IF agents = <<>> THEN <<>>
    ELSE LET i == CHOOSE i \in DOMAIN agents :
                      \A j \in DOMAIN agents : t[agents[i]].seq <= t[agents[j]].seq
         IN  <<agents[i]>>
             \o CompletionOrder([k \in 1..(Len(agents) - 1) |->
                                    IF k < i THEN agents[k] ELSE agents[k + 1]], t)

RECURSIVE DocumentsInOrder(_, _)
DocumentsInOrder(agents, t) ==
    IF agents = <<>> THEN <<>>
    ELSE LET r == t[Head(agents)].res
         IN  (IF r.kind = "result" THEN r.documents ELSE <<>>)
             \o DocumentsInOrder(Tail(agents), t)

\* variant: the documents are gathered in the order in which the tasks ended
DocumentsOfJoin_ByCompletion(agents, t) ==
    DocumentsInOrder(CompletionOrder(agents, t), t)

\* all_documents of the result loop: asyncio.gather returns the results in
\* the order of the tasks
RECURSIVE DocumentsOfJoin(_, _)
DocumentsOfJoin(agents, t) ==
    IF agents = <<>> THEN <<>>
    ELSE LET r == t[Head(agents)].res
         IN  (IF r.kind = "result" THEN r.documents ELSE <<>>)
             \o DocumentsOfJoin(Tail(agents), t)

\* variant: the results of the external agents are not stored
OutputsAfterExternalJoin_NotStored(outs, agents, t) == outs

\* the result loop of phase3b_external_enrichment stores only results
RECURSIVE OutputsAfterExternalJoin(_, _, _)
OutputsAfterExternalJoin(outs, agents, t) ==
    IF agents = <<>> THEN outs
    ELSE LET a == Head(agents)
             r == t[a].res
         IN  OutputsAfterExternalJoin(
                 IF r.kind = "result" THEN DictSet(outs, a, r) ELSE outs,
                 Tail(agents), t)

RECURSIVE ScoresAfterExternalJoin(_, _, _)
ScoresAfterExternalJoin(scores, agents, t) ==
    IF agents = <<>> THEN scores
    ELSE LET a == Head(agents)
             r == t[a].res
         IN  ScoresAfterExternalJoin(
                 IF r.kind = "result" THEN DictSet(scores, a, r.confidence) ELSE scores,
                 Tail(agents), t)

-----------------------------------------------------------------------------
(* Initial state *)

PhaseNames ==
    {"plan", "coordinate", "retrieve", "quality", "enrich", "synthesize",
     "step1", "step2", "step3", "step4", "step5",
     "query_processing", "agent_coordination", "parallel_retrieval",
     "quality_check", "requery", "synthesis"}

\* an executor constructed without RegulationAgent, the default agent
PartialAgents == {PlanningAgent, "CaseLawAgent", "WebSearchAgent"}

\* the agent dictionaries a PhaseExecutor is constructed with
RegisteredChoices == {AllAgents, RagAgents, RetrievalAgents, PartialAgents}

InitCommon ==
    /\ intent = "empty"
    /\ complexity = "moderate"
    /\ strategy = UnsetStrategy
    /\ selected = <<>>
    /\ fanout = <<>>
    /\ task = [a \in RetrievalAgents |-> NoTask]
    /\ collectIdx = 0
    /\ agent_outputs = EmptyDict
    /\ confidence_scores = EmptyDict
    /\ vector_results = EmptyDict
    /\ errors = <<>>
    /\ quality_check = UnsetQuality
    /\ external_used = <<>>
    /\ retrieved_documents = <<>>
    /\ synth = "none"
    /\ final_output = NoOutput
    /\ requery_count = 0
    /\ entered = [p \in PhaseNames |-> 0]

\* FunctionToolRegistry.__init__
NewRegistry == [initialized |-> FALSE, tool_instances |-> {}, tools |-> {}]

\* no tool instance holds a session
NoHandles == [t \in {"brave_search", "llm_enhancer"} |-> 0]

RegistryIdle ==
    /\ settings = [brave_search |-> TRUE, llm_enhancer |-> TRUE,
                   specialized_tools |-> TRUE]
    /\ registry = NewRegistry
    /\ sessions = <<>>
    /\ handles = NoHandles
    /\ last_op = "none"
    /\ singleton = FALSE

SearchIdle ==
    /\ stack = <<>>
    /\ requests = 0
    /\ search_result = "none"

MergeIdle ==
    /\ existing = <<>>
    /\ incoming = <<>>
    /\ merged = <<>>
    /\ merge_fn = "none"
    /\ merge_round = 0

\* no component is exercised on its own
CallIdle ==
    /\ call = "none"
    /\ args = <<>>
    /\ ret = <<>>

TimingIdle == timing = <<>>

NetIdle == net = <<>>

ToolsIdle == SearchIdle /\ RegistryIdle /\ MergeIdle /\ CallIdle /\ TimingIdle /\ NetIdle

InitPhases ==
    /\ driver = "phases"
    /\ pc = "plan"
    /\ query \in Queries
    /\ registered \in RegisteredChoices
    /\ planHangs \in BOOLEAN
    /\ needs_requery = FALSE
    /\ InitCommon
    /\ ToolsIdle

Enter(p) == entered' = [entered EXCEPT ![p] = @ + 1]

-----------------------------------------------------------------------------
(* The order in which the phases of the PhaseExecutor are run *)

NextPhase(p, qc) ==
    CASE p = "plan"       -> "coordinate"
      [] p = "coordinate" -> "retrieve"
      [] p = "retrieve"   -> "quality"
      [] p = "quality"    -> IF qc.needs_external_enrichment THEN "enrich" ELSE "synthesize"
      [] p = "enrich"     -> "synthesize"
      [] OTHER            -> "done"

-----------------------------------------------------------------------------
(* PhaseExecutor *)

\* phase1_query_processing up to the await of planning_agent.process; the
\* lookup of the planning agent raises when it is not registered, and the
\* except block records the error and sets the fallback strategy
phase1_begin ==
    /\ driver = "phases" /\ pc = "plan"
    /\ Enter("plan")
    /\ IF PlanningAgent \in registered
       THEN /\ pc' = "planning"
            /\ UNCHANGED <<errors, strategy>>
       ELSE /\ errors' = Append(errors, Err("Query processing error", "KeyError"))
            /\ strategy' = GetFallbackStrategy
            /\ pc' = NextPhase("plan", quality_check)
    /\ UNCHANGED <<env, intent, complexity, selected, fanout, task,
                   collectIdx, agent_outputs, confidence_scores,
                   vector_results, quality_check, external_used,
                   retrieved_documents, synth, final_output, requery_count>>

\* phase1_query_processing from the return of planning_agent.process, which
\* is awaited without a timeout
phase1_query_processing ==
    /\ driver = "phases" /\ pc = "planning"
    /\ ~planHangs
    /\ \E ok \in BOOLEAN :
         LET result == PlanningResult(ok)
             c      == PlannedComplexity(ok, query, complexity)
         IN  /\ intent' = IF ok THEN "analyzed" ELSE intent
             /\ complexity' = c
             /\ agent_outputs' = DictSet(agent_outputs, "query_planning", result)
             /\ confidence_scores' =
                    DictSet(confidence_scores, "query_planning", result.confidence)
             /\ strategy' = IF strategy.set THEN strategy ELSE GetDefaultStrategy(c)
    /\ pc' = NextPhase("plan", quality_check)
    /\ UNCHANGED <<env, selected, fanout, task, collectIdx, vector_results,
                   errors, quality_check, external_used, retrieved_documents,
                   synth, final_output, requery_count, entered>>

\* phase2_coordination
phase2_coordination ==
    /\ driver = "phases" /\ pc = "coordinate"
    /\ Enter("coordinate")
    /\ LET selected_agents == SelectInternalAgents(strategy, query, complexity)
       IN  selected' = IF selected_agents = <<>>
                       THEN <<"RegulationAgent", "CaseLawAgent">>
                       ELSE selected_agents
    /\ pc' = NextPhase("coordinate", quality_check)
    /\ UNCHANGED <<env, intent, complexity, strategy, fanout, task,
                   collectIdx, agent_outputs, confidence_scores,
                   vector_results, errors, quality_check, external_used,
                   retrieved_documents, synth, final_output, requery_count>>

\* phase3_retrieval up to asyncio.gather: one task per selected agent that
\* is registered and is not an external agent
phase3_begin ==
    /\ driver = "phases" /\ pc = "retrieve"
    /\ Enter("retrieve")
    /\ LET tasks == SelectSeq(selected,
                       LAMBDA a : a \in registered /\ a \notin ExternalAgents)
       IN  /\ fanout' = tasks
           /\ task' = Spawn(task, tasks)
           /\ pc' = IF tasks = <<>> THEN NextPhase("retrieve", quality_check)
                    ELSE "retrieve_join"
    /\ UNCHANGED <<env, intent, complexity, strategy, selected, collectIdx,
                   agent_outputs, confidence_scores, vector_results, errors,
                   quality_check, external_used, retrieved_documents, synth,
                   final_output, requery_count>>

\* a task of the fan-out: agent.process returns inside wait_for
agent_completes(a, o) ==
    /\ driver = "phases" /\ pc \in {"retrieve_join", "enrich_join"}
    /\ task[a].st = "pending"
    /\ LET raw == AgentProcess(a, o)
       IN  task' = [task EXCEPT ![a] = DoneTask(o, raw, RunAgentWithTimeout(raw))]
    /\ UNCHANGED <<env, intent, pc, complexity, strategy, selected, fanout,
                   collectIdx, agent_outputs, confidence_scores,
                   vector_results, errors, quality_check, external_used,
                   retrieved_documents, synth, final_output, requery_count,
                   entered>>

\* a task of the fan-out: wait_for raises TimeoutError after agent_timeout
agent_times_out(a) ==
    /\ driver = "phases" /\ pc \in {"retrieve_join", "enrich_join"}
    /\ task[a].st = "pending"
    /\ task' = [task EXCEPT ![a] = DoneTask("timeout", NoneResult, TimeoutResult)]
    /\ UNCHANGED <<env, intent, pc, complexity, strategy, selected, fanout,
                   collectIdx, agent_outputs, confidence_scores,
                   vector_results, errors, quality_check, external_used,
                   retrieved_documents, synth, final_output, requery_count,
                   entered>>

\* phase3_retrieval from the return of asyncio.gather
phase3_retrieval ==
    /\ driver = "phases" /\ pc = "retrieve_join"
    /\ AllDone(task, fanout)
    /\ agent_outputs' = OutputsAfterJoin(agent_outputs, fanout, task)
    /\ confidence_scores' = ScoresAfterJoin(confidence_scores, fanout, task)
    /\ errors' = ErrorsAfterJoin(errors, fanout, task)
    /\ retrieved_documents' = DeduplicateDocuments(DocumentsOfJoin(fanout, task))
    /\ pc' = NextPhase("retrieve", quality_check)
    /\ UNCHANGED <<env, intent, complexity, strategy, selected, fanout, task,
                   collectIdx, vector_results, quality_check, external_used,
                   synth, final_output, requery_count, entered>>

\* quality_check_node
quality_check_node ==
    /\ driver = "phases" /\ pc = "quality"
    /\ Enter("quality")
    /\ quality_check' = QualityCheckNode(retrieved_documents, confidence_scores)
    /\ pc' = NextPhase("quality", quality_check')
    /\ UNCHANGED <<env, intent, complexity, strategy, selected, fanout, task,
                   collectIdx, agent_outputs, confidence_scores,
                   vector_results, errors, external_used,
                   retrieved_documents, synth, final_output, requery_count>>

\* phase3b_external_enrichment up to asyncio.gather
phase3b_begin ==
    /\ driver = "phases" /\ pc = "enrich"
    /\ Enter("enrich")
    /\ LET external_agents == SelectExternalAgents(query, complexity, quality_check)
           external_tasks  == SelectSeq(external_agents, LAMBDA a : a \in registered)
       IN  IF external_agents = <<>>
           THEN /\ pc' = NextPhase("enrich", quality_check)
                /\ UNCHANGED <<fanout, task, external_used>>
           ELSE /\ fanout' = external_tasks
                /\ task' = Spawn(task, external_tasks)
                /\ IF external_tasks = <<>>
                   THEN /\ external_used' = external_agents
                        /\ pc' = NextPhase("enrich", quality_check)
                   ELSE /\ pc' = "enrich_join"
                        /\ UNCHANGED external_used
    /\ UNCHANGED <<env, intent, complexity, strategy, selected, collectIdx,
                   agent_outputs, confidence_scores, vector_results, errors,
                   quality_check, retrieved_documents, synth, final_output,
                   requery_count>>

\* phase3b_external_enrichment from the return of asyncio.gather
phase3b_external_enrichment ==
    /\ driver = "phases" /\ pc = "enrich_join"
    /\ AllDone(task, fanout)
    /\ agent_outputs' = OutputsAfterExternalJoin(agent_outputs, fanout, task)
    /\ confidence_scores' = ScoresAfterExternalJoin(confidence_scores, fanout, task)
    /\ errors' = ErrorsAfterJoin(errors, fanout, task)
    /\ LET external_documents == DocumentsOfJoin(fanout, task)
       IN  retrieved_documents' =
               IF external_documents # <<>>
               THEN DeduplicateDocuments(retrieved_documents \o external_documents)
               ELSE retrieved_documents
    /\ external_used' = SelectExternalAgents(query, complexity, quality_check)
    /\ pc' = NextPhase("enrich", quality_check)
    /\ UNCHANGED <<env, intent, complexity, strategy, selected, fanout, task,
                   collectIdx, vector_results, quality_check, synth,
                   final_output, requery_count, entered>>

\* the outcomes of synthesis_service.synthesize followed by
\* _generate_final_output: a synthesis dictionary, or an exception
SynthesisOutcomes == {"ok", "raise"}

\* phase4_synthesis
phase4_synthesis ==
    /\ driver = "phases" /\ pc = "synthesize"
    /\ Enter("synthesize")
    /\ IF retrieved_documents = <<>>
       THEN /\ final_output' = GenerateNoResultsOutput(errors)
            /\ UNCHANGED <<errors, synth>>
       ELSE \E outcome \in SynthesisOutcomes :
              /\ synth' = outcome
              /\ IF outcome = "ok"
                 THEN /\ final_output' = GenerateFinalOutput(errors)
                      /\ UNCHANGED errors
                 ELSE /\ errors' = Append(errors, Err("Synthesis error", "exception"))
                      /\ final_output' = GenerateErrorOutput(errors')
    /\ pc' = NextPhase("synthesize", quality_check)
    /\ UNCHANGED <<env, intent, complexity, strategy, selected, fanout, task,
                   collectIdx, agent_outputs, confidence_scores,
                   vector_results, quality_check, external_used,
                   retrieved_documents, requery_count>>

PhasesNext ==
    \/ phase1_begin
    \/ phase1_query_processing
    \/ phase2_coordination
    \/ phase3_begin
    \/ \E a \in RetrievalAgents, o \in Outcomes : agent_completes(a, o)
    \/ \E a \in RetrievalAgents : agent_times_out(a)
    \/ phase3_retrieval
    \/ quality_check_node
    \/ phase3b_begin
    \/ phase3b_external_enrichment
    \/ phase4_synthesis

-----------------------------------------------------------------------------
(* RAGOrchestrator *)

InitRag ==
    /\ driver = "rag"
    /\ pc = "step1"
    /\ query \in Queries
    /\ registered = RagAgents
    /\ planHangs \in BOOLEAN
    /\ needs_requery = FALSE
    /\ InitCommon
    /\ ToolsIdle

\* the key _consolidate_results sorts the agents by
AgentPriority(a) ==
    CASE a = "RegulationAgent" -> 1
      [] a = "CaseLawAgent"    -> 2
      [] a = "ExpertAgent"     -> 3
      [] a = "PrecedentAgent"  -> 4
      [] OTHER                 -> 5

\* sorted(results.keys(), key=priority): a stable insertion sort
RECURSIVE InsertByPriority(_, _)
InsertByPriority(sorted, x) ==
    IF sorted = <<>> THEN <<x>>
    ELSE IF AgentPriority(x) < AgentPriority(Head(sorted))
         THEN <<x>> \o sorted
         ELSE <<Head(sorted)>> \o InsertByPriority(Tail(sorted), x)

RECURSIVE SortByPriority(_)
SortByPriority(s) ==
    IF s = <<>> THEN <<>>
    ELSE InsertByPriority(SortByPriority(SubSeq(s, 1, Len(s) - 1)), s[Len(s)])

\* the documents of `results`, agent after agent in the order `agents`
RECURSIVE DocumentsOfResults(_, _)
DocumentsOfResults(agents, results) ==
    IF agents = <<>> THEN <<>>
    ELSE results[Head(agents)].documents \o DocumentsOfResults(Tail(agents), results)

\* the loop of _consolidate_results: a document is kept when it has an id
\* that was not seen before
RECURSIVE KeepFirstIds(_, _, _)
KeepFirstIds(docs, seen_ids, consolidated) ==
    IF docs = <<>> THEN consolidated
    ELSE LET doc == Head(docs)
         IN  IF doc.id # 0 /\ doc.id \notin seen_ids
             THEN KeepFirstIds(Tail(docs), seen_ids \cup {doc.id}, Append(consolidated, doc))
             ELSE KeepFirstIds(Tail(docs), seen_ids, consolidated)

\* RAGOrchestrator._consolidate_results; `order` is the insertion order of
\* the results dictionary
ConsolidateResults(order, results) ==
    KeepFirstIds(DocumentsOfResults(SortByPriority(order), results), {}, <<>>)

\* the cap of _apply_final_refinement
MaxDocs(c) ==
    CASE c = "simple"   -> 10
      [] c = "moderate" -> 15
      [] c = "complex"  -> 20
      [] c = "expert"   -> 25
      [] OTHER          -> 15

\* the sort key of _apply_final_refinement, in units of 1/1000, for a
\* document that carries a relevance score and none of the other scores
RefinementScore(doc) == doc.rel * 4 + 50 * 3 + 50 * 2 + 50 * 1

\* sorted(documents, key=score, reverse=True): stable, highest score first
RECURSIVE InsertByScore(_, _)
InsertByScore(sorted, x) ==
    IF sorted = <<>> THEN <<x>>
    ELSE IF RefinementScore(x) > RefinementScore(Head(sorted))
         THEN <<x>> \o sorted
         ELSE <<Head(sorted)>> \o InsertByScore(Tail(sorted), x)

RECURSIVE SortByScore(_)
SortByScore(s) ==
    IF s = <<>> THEN <<>>
    ELSE InsertByScore(SortByScore(SubSeq(s, 1, Len(s) - 1)), s[Len(s)])

\* RAGOrchestrator._apply_final_refinement
ApplyFinalRefinement(docs, c) ==
    LET refined == SortByScore(docs)
    IN  SubSeq(refined, 1, IF Len(refined) < MaxDocs(c) THEN Len(refined) ELSE MaxDocs(c))

\* _step1_query_submission up to the await of query_agent.process
step1_begin ==
    /\ driver = "rag" /\ pc = "step1"
    /\ Enter("step1")
    /\ pc' = "step1_wait"
    /\ UNCHANGED <<env, intent, complexity, strategy, selected, fanout, task,
                   collectIdx, agent_outputs, confidence_scores,
                   vector_results, errors, quality_check, external_used,
                   retrieved_documents, synth, final_output, requery_count>>

\* _step1_query_submission from the return of query_agent.process, which is
\* awaited without a timeout
step1_query_submission ==
    /\ driver = "rag" /\ pc = "step1_wait"
    /\ ~planHangs
    /\ \E ok \in BOOLEAN :
         /\ intent' = IF ok THEN "analyzed" ELSE "empty"
         /\ complexity' = IF ok THEN DetermineComplexity(query) ELSE "moderate"
    /\ pc' = "step2"
    /\ UNCHANGED <<env, strategy, selected, fanout, task, collectIdx,
                   agent_outputs, confidence_scores, vector_results, errors,
                   quality_check, external_used, retrieved_documents, synth,
                   final_output, requery_count, entered>>

\* _step2_vector_retrieval up to the collection loop: state.pipeline_metadata
\* holds no strategy, so the agents are those of _select_agents_for_query
step2_begin ==
    /\ driver = "rag" /\ pc = "step2"
    /\ Enter("step2")
    /\ LET active_agents ==
               SelectAgentsForQuery(query, complexity, intent = "analyzed")
       IN  /\ fanout' = active_agents
           /\ task' = Spawn(task, active_agents)
    /\ collectIdx' = 1
    /\ pc' = "step2_collect"
    /\ UNCHANGED <<env, intent, complexity, strategy, selected,
                   agent_outputs, confidence_scores, vector_results, errors,
                   quality_check, external_used, retrieved_documents, synth,
                   final_output, requery_count>>

\* a task created in _step2_vector_retrieval: agent.process returns
rag_agent_completes(a, o) ==
    /\ driver = "rag" /\ pc = "step2_collect"
    /\ task[a].st = "pending"
    /\ LET raw == AgentProcess(a, o)
       IN  task' = [task EXCEPT ![a] = DoneTask(o, raw, CollectResult(raw))]
    /\ UNCHANGED <<env, pc, intent, complexity, strategy, selected, fanout,
                   collectIdx, agent_outputs, confidence_scores,
                   vector_results, errors, quality_check, external_used,
                   retrieved_documents, synth, final_output, requery_count,
                   entered>>

AfterCollect == IF collectIdx = Len(fanout) THEN "step3" ELSE "step2_collect"

\* the collection loop of _step2_vector_retrieval: wait_for returns the
\* result of the task it awaits
step2_collect ==
    /\ driver = "rag" /\ pc = "step2_collect"
    /\ collectIdx <= Len(fanout)
    /\ task[fanout[collectIdx]].st = "done"
    /\ vector_results' =
           DictSet(vector_results, fanout[collectIdx], task[fanout[collectIdx]].res)
    /\ collectIdx' = collectIdx + 1
    /\ pc' = AfterCollect
    /\ UNCHANGED <<env, intent, complexity, strategy, selected, fanout, task,
                   agent_outputs, confidence_scores, errors, quality_check,
                   external_used, retrieved_documents, synth, final_output,
                   requery_count, entered>>

\* the collection loop of _step2_vector_retrieval: wait_for expires on the
\* task it awaits and cancels it
step2_wait_times_out ==
    /\ driver = "rag" /\ pc = "step2_collect"
    /\ collectIdx <= Len(fanout)
    /\ task[fanout[collectIdx]].st = "pending"
    /\ task' = [task EXCEPT ![fanout[collectIdx]] =
                    DoneTask("timeout", NoneResult, TimeoutResult)]
    /\ vector_results' = DictSet(vector_results, fanout[collectIdx], TimeoutResult)
    /\ collectIdx' = collectIdx + 1
    /\ pc' = AfterCollect
    /\ UNCHANGED <<env, intent, complexity, strategy, selected, fanout,
                   agent_outputs, confidence_scores, errors, quality_check,
                   external_used, retrieved_documents, synth, final_output,
                   requery_count, entered>>

\* _step3_external_sourcing: the decision is computed and logged, no agent
\* is run and vector_results is returned as it is
step3_external_sourcing ==
    /\ driver = "rag" /\ pc = "step3"
    /\ Enter("step3")
    /\ LET total_docs == Len(DocumentsOfResults(fanout, vector_results))
           confs      == [i \in DOMAIN fanout |-> vector_results[fanout[i]].confidence]
           avg_confidence == IF fanout = <<>> THEN 0 ELSE SumSeq(confs) \div Len(fanout)
       IN  quality_check' =
               [set |-> TRUE,
                sufficient_documents |-> total_docs >= MIN_DOCS_THRESHOLD,
                high_confidence |-> avg_confidence >= CONFIDENCE_THRESHOLD,
                document_count |-> total_docs,
                average_confidence |-> avg_confidence,
                needs_external_enrichment |->
                    NeedsExternalSourcing(total_docs, avg_confidence, complexity)]
    /\ pc' = "step4"
    /\ UNCHANGED <<env, intent, complexity, strategy, selected, fanout, task,
                   collectIdx, agent_outputs, confidence_scores,
                   vector_results, errors, external_used,
                   retrieved_documents, synth, final_output, requery_count>>

\* _step4_llm_generation
step4_llm_generation ==
    /\ driver = "rag" /\ pc = "step4"
    /\ Enter("step4")
    /\ retrieved_documents' = DocumentsOfResults(fanout, vector_results)
    /\ pc' = "step5"
    /\ UNCHANGED <<env, intent, complexity, strategy, selected, fanout, task,
                   collectIdx, agent_outputs, confidence_scores,
                   vector_results, errors, quality_check, external_used,
                   synth, final_output, requery_count>>

\* the SynthesisResult process_query returns from its except block
FallbackResult ==
    [status |-> "error", errors |-> <<Err("pipeline", "exception")>>, sources |-> <<>>]

\* the number of documents _create_synthesis_result lists as sources
MAX_SOURCES == 10

\* the entry of `sources` built from a document: its title, source and
\* relevance score; of these the documents of the model carry the score
SourceOf(doc) == [relevance_score |-> doc.rel]

\* the SynthesisResult _create_synthesis_result builds
CreateSynthesisResult(docs) ==
    LET top == SubSeq(docs, 1, IF Len(docs) < MAX_SOURCES THEN Len(docs) ELSE MAX_SOURCES)
    IN  [status |-> "success", errors |-> <<>>,
         sources |-> [i \in DOMAIN top |-> SourceOf(top[i])]]

\* _step5_refinement_synthesis and the return of process_query; an
\* exception of the synthesis is caught by process_query
step5_refinement_synthesis ==
    /\ driver = "rag" /\ pc = "step5"
    /\ Enter("step5")
    /\ retrieved_documents' =
           ApplyFinalRefinement(ConsolidateResults(fanout, vector_results), complexity)
    /\ \E outcome \in SynthesisOutcomes :
         /\ synth' = outcome
         /\ final_output' = IF outcome = "ok"
                            THEN CreateSynthesisResult(retrieved_documents')
                            ELSE FallbackResult
    /\ pc' = "returned"
    /\ UNCHANGED <<env, intent, complexity, strategy, selected, fanout, task,
                   collectIdx, agent_outputs, confidence_scores,
                   vector_results, errors, quality_check, external_used,
                   requery_count>>

RagNext ==
    \/ step1_begin
    \/ step1_query_submission
    \/ step2_begin
    \/ \E a \in InternalAgents, o \in Outcomes : rag_agent_completes(a, o)
    \/ step2_collect
    \/ step2_wait_times_out
    \/ step3_external_sourcing
    \/ step4_llm_generation
    \/ step5_refinement_synthesis

-----------------------------------------------------------------------------
(* The workflow graph of WorkflowBuilder.build_workflow.  Its node         *)
(* functions return the state as they received it; requery_node counts.    *)

InitGraph ==
    /\ driver = "graph"
    /\ pc = "query_processing"
    /\ query = QPlain
    /\ registered = AllAgents
    /\ planHangs = FALSE
    /\ needs_requery \in BOOLEAN
    /\ InitCommon
    /\ ToolsIdle

\* the conditional edge out of quality_check
QualityCheckEdge(requery) == IF requery THEN "requery" ELSE "synthesis"

\* add_edge / add_conditional_edges of build_workflow
GraphEdge(node, requery) ==
    CASE node = "query_processing"   -> "agent_coordination"
      [] node = "agent_coordination" -> "parallel_retrieval"
      [] node = "parallel_retrieval" -> "quality_check"
      [] node = "quality_check"      -> QualityCheckEdge(requery)
      [] node = "requery"            -> "parallel_retrieval"
      [] OTHER                       -> "END"

GraphFrame ==
    UNCHANGED <<env, intent, complexity, strategy, selected, fanout, task,
                collectIdx, agent_outputs, confidence_scores, vector_results,
                errors, quality_check, external_used, retrieved_documents,
                synth, final_output>>

\* a node whose function returns the state unchanged
RunNode(node) ==
    /\ driver = "graph" /\ pc = node
    /\ Enter(node)
    /\ pc' = GraphEdge(node, needs_requery)
    /\ UNCHANGED requery_count
    /\ GraphFrame

node_query_processing == RunNode("query_processing")

node_agent_coordination == RunNode("agent_coordination")

node_parallel_retrieval == RunNode("parallel_retrieval")

node_quality_check == RunNode("quality_check")

node_synthesis == RunNode("synthesis")

\* requery_node; the model stops following the loop after MaxGraphLoops
requery_node ==
    /\ driver = "graph" /\ pc = "requery"
    /\ requery_count < MaxGraphLoops
    /\ Enter("requery")
    /\ requery_count' = requery_count + 1
    /\ pc' = GraphEdge("requery", needs_requery)
    /\ GraphFrame

GraphNext ==
    \/ node_query_processing
    \/ node_agent_coordination
    \/ node_parallel_retrieval
    \/ node_quality_check
    \/ node_synthesis
    \/ requery_node

-----------------------------------------------------------------------------
(* BraveSearchTool.  A query is the record of its length in characters,    *)
(* the lengths of the key terms _extract_key_terms finds in it, and the    *)
(* position of the last space among its first max_query_length characters  *)
(* (-1 when there is none, as str.rfind gives it).                         *)

\* the requests of one call the model follows
MaxRequests == 6

MAX_QUERY_LENGTH == 400
MAX_RETRIES == 3
MAX_SPLITS == 3

SearchQ(len, terms, last_space) ==
    [len |-> len, terms |-> terms, last_space |-> last_space]

\* a short query
SQShort == SearchQ(20, <<>>, 12)
\* a long query whose key terms fit one sub-query
SQLongOne == SearchQ(450, <<7, 8, 10>>, 395)
\* a long query whose key terms fill three sub-queries
SQLongThree == SearchQ(900, <<250, 250, 250, 100>>, 300)
\* a long query without key terms
SQLongNoTerms == SearchQ(450, <<>>, 310)

SearchQueries == {SQShort, SQLongOne, SQLongThree, SQLongNoTerms}

\* variant: the query is sent as it was given
ValidateAndTruncate_AsGiven(q) == q

\* BraveSearchTool._validate_and_truncate_query
ValidateAndTruncate(q) ==
    IF q.len <= MAX_QUERY_LENGTH THEN q
    ELSE IF q.last_space * 10 > MAX_QUERY_LENGTH * 8
         THEN [q EXCEPT !.len = q.last_space]
         ELSE [q EXCEPT !.len = (MAX_QUERY_LENGTH - 3) + 3]

\* len(" ".join(terms))
JoinedLen(ts) == SumSeq(ts) + (Len(ts) - 1)

\* the sub-query made of the key terms `ts`
SubQueryOf(ts) ==
    SearchQ(JoinedLen(ts), ts,
            IF Len(ts) > 1 THEN JoinedLen(ts) - ts[Len(ts)] - 1 ELSE 0 - 1)

\* the for loop of _split_complex_query, up to its end or its break
RECURSIVE SplitLoop(_, _, _)
SplitLoop(key_terms, current_query, sub_queries) ==
    IF key_terms = <<>> THEN [current_query |-> current_query, sub_queries |-> sub_queries]
    ELSE LET term       == Head(key_terms)
             test_query == Append(current_query, term)
         IN  IF JoinedLen(test_query) <= MAX_QUERY_LENGTH
             THEN SplitLoop(Tail(key_terms), test_query, sub_queries)
             ELSE LET appended == IF current_query # <<>>
                                  THEN Append(sub_queries, SubQueryOf(current_query))
                                  ELSE sub_queries
                  IN  IF Len(appended) >= MAX_SPLITS
                      THEN [current_query |-> <<term>>, sub_queries |-> appended]
                      ELSE SplitLoop(Tail(key_terms), <<term>>, appended)

\* BraveSearchTool._split_complex_query
SplitComplexQuery(q) ==
    IF q.len <= MAX_QUERY_LENGTH THEN <<q>>
    ELSE LET r    == SplitLoop(q.terms, <<>>, <<>>)
             subs == IF r.current_query # <<>> /\ Len(r.sub_queries) < MAX_SPLITS
                     THEN Append(r.sub_queries, SubQueryOf(r.current_query))
                     ELSE r.sub_queries
         IN  IF subs = <<>> THEN <<ValidateAndTruncate(q)>> ELSE subs

\* a frame of search(q) in its retry loop, and a frame of
\* search_with_split_query(q) in its loop over the sub-queries
SearchFrame(q) == [fn |-> "search", q |-> q, attempt |-> 0, subs |-> <<>>, hits |-> FALSE]

SplitFrame(q) ==
    [fn |-> "split", q |-> q, attempt |-> 0, subs |-> SplitComplexQuery(q), hits |-> FALSE]

\* what the provider answers to one request, or the exception the request ends with
Responses == {"200", "422_query", "422", "429", "500", "ClientError", "Exception"}

\* the top frame returns `val` ("data": a result with entries, "empty": the
\* structured result without entries); a search frame that was waiting for
\* search_with_split_query returns what it got, a split frame keeps the
\* entries and goes on with its loop
RECURSIVE ReturnValue(_, _)
ReturnValue(stk, val) ==
    LET rest == SubSeq(stk, 1, Len(stk) - 1)
    IN  IF rest = <<>> THEN [stack |-> <<>>, result |-> val]
        ELSE IF rest[Len(rest)].fn = "search" THEN ReturnValue(rest, val)
        ELSE [stack  |-> [rest EXCEPT ![Len(rest)].hits = @ \/ val = "data"],
              result |-> "none"]

InitSearch ==
    /\ driver = "search"
    /\ pc = "tool"
    /\ query = QPlain
    /\ registered = AllAgents
    /\ planHangs = FALSE
    /\ needs_requery = FALSE
    /\ InitCommon
    /\ \E q \in SearchQueries : stack = <<SearchFrame(q)>>
    /\ requests = 0
    /\ search_result = "none"
    /\ RegistryIdle /\ MergeIdle /\ CallIdle /\ TimingIdle /\ NetIdle

\* one iteration of the retry loop of search
search(response) ==
    /\ driver = "search" /\ stack # <<>>
    /\ stack[Len(stack)].fn = "search"
    /\ requests < MaxRequests
    /\ requests' = requests + 1
    /\ LET top       == stack[Len(stack)]
           continued == [stack |-> [stack EXCEPT ![Len(stack)].attempt = @ + 1],
                         result |-> "none"]
           after ==
               CASE response = "200" -> ReturnValue(stack, "data")
                 [] response = "422_query" ->
                        [stack |-> Append(stack, SplitFrame(top.q)), result |-> "none"]
                 [] response = "422" -> ReturnValue(stack, "empty")
                 [] response = "429" ->
                        IF top.attempt + 1 < MAX_RETRIES THEN continued
                        ELSE ReturnValue(stack, "empty")
                 [] OTHER ->
                        IF top.attempt < MAX_RETRIES - 1 THEN continued
                        ELSE ReturnValue(stack, "empty")
       IN  /\ stack' = after.stack
           /\ search_result' = after.result
    /\ SearchOnly

\* one iteration of the loop of search_with_split_query, or its return
search_with_split_query ==
    /\ driver = "search" /\ stack # <<>>
    /\ stack[Len(stack)].fn = "split"
    /\ LET top == stack[Len(stack)]
       IN  IF top.subs = <<>>
           THEN LET after == ReturnValue(stack, IF top.hits THEN "data" ELSE "empty")
                IN  /\ stack' = after.stack
                    /\ search_result' = after.result
           ELSE /\ stack' = Append([stack EXCEPT ![Len(stack)].subs = Tail(@)],
                                   SearchFrame(Head(top.subs)))
                /\ UNCHANGED search_result
    /\ UNCHANGED requests
    /\ SearchOnly

SearchNext ==
    \/ \E response \in Responses : search(response)
    \/ search_with_split_query

SearchSpec == InitSearch /\ [][SearchNext]_vars

-----------------------------------------------------------------------------
(* FunctionToolRegistry.  A session is the record of the tool instance     *)
(* that opened it and of the number of times it has been closed.           *)

\* the sessions the model lets a run open
MaxSessions == 3

\* what the registry reads of the settings: for brave_search and
\* llm_enhancer, that the API key is present and the feature flag
\* (enable_external_search, enable_llm_enhancement) is set; and the flag
\* enable_specialized_tools
SettingKeys == {"brave_search", "llm_enhancer", "specialized_tools"}

\* the tools initialize constructs, in its order
ToolOrder == <<"brave_search", "llm_enhancer", "irs_api">>

\* whether initialize takes the branch that constructs the tool
Enabled(cfg, t) == IF t = "irs_api" THEN TRUE ELSE cfg[t]

\* where initialize raises: nowhere, or while it constructs a tool
FailPoints(cfg) == {"none"} \cup {t \in Range(ToolOrder) : Enabled(cfg, t)}

\* the tool instances initialize has stored when it raises at `fail`, or
\* when it reaches its end
RECURSIVE InstancesBefore(_, _, _)
InstancesBefore(order, cfg, fail) ==
    IF order = <<>> \/ Head(order) = fail THEN {}
    ELSE (IF Enabled(cfg, Head(order)) THEN {Head(order)} ELSE {})
         \cup InstancesBefore(Tail(order), cfg, fail)

\* _add_specialized_tools: the tools it registers, whatever the settings say
SpecializedTools == {"federal_register", "sec_edgar"}

\* variant: initialize never takes its early return
AlreadyInitialized_Never(reg) == FALSE

\* initialize: `if self._initialized: return`
AlreadyInitialized(reg) == reg.initialized

\* the agents get_tools_for_agent is asked for; "OtherAgent" is a name its
\* table does not list
ToolUsers == {"CaseLawAgent", "RegulationAgent", "PrecedentAgent", "ExpertAgent",
              "OtherAgent"}

\* agent_tool_mappings of get_tools_for_agent, with its default
AgentToolMapping(agent) ==
    CASE agent = "CaseLawAgent"    -> {"brave_search", "llm_enhancer", "irs_api"}
      [] agent = "RegulationAgent" -> {"brave_search", "llm_enhancer",
                                       "federal_register", "irs_api"}
      [] agent = "PrecedentAgent"  -> {"brave_search", "llm_enhancer", "sec_edgar"}
      [] agent = "ExpertAgent"     -> {"brave_search", "llm_enhancer"}
      [] OTHER                     -> {"brave_search"}

\* FunctionToolRegistry.get_tools_for_agent on an initialized registry: the
\* names of the tool map it returns
GetToolsForAgent(reg, agent) == AgentToolMapping(agent) \cap reg.tools

\* hasattr(tool_instance, '_close_session') or hasattr(tool_instance, 'close')
HasCloseMethod(t) == t = "brave_search"

\* the tool instances that hold a network session once they are used:
\* BraveSearchTool.session and the client of LLMEnhancerTool
HoldsSession(t) == t \in {"brave_search", "llm_enhancer"}

NewSession(t) == [owner |-> t, closes |-> 0]

\* FunctionToolRegistry.cleanup on the registry `reg`
Cleanup(reg, sess, hnd) ==
    LET closing == {hnd[t] : t \in {u \in reg.tool_instances :
                                       HoldsSession(u) /\ HasCloseMethod(u)}} \ {0}
    IN  [registry |-> NewRegistry,
         sessions |-> [i \in DOMAIN sess |->
                          IF i \in closing THEN [sess[i] EXCEPT !.closes = @ + 1]
                          ELSE sess[i]],
         handles  |-> NoHandles]

InitRegistry ==
    /\ driver = "registry"
    /\ pc = "tool"
    /\ query = QPlain
    /\ registered = AllAgents
    /\ planHangs = FALSE
    /\ needs_requery = FALSE
    /\ InitCommon
    /\ SearchIdle /\ MergeIdle /\ CallIdle /\ TimingIdle /\ NetIdle
    /\ settings \in [SettingKeys -> BOOLEAN]
    /\ registry = NewRegistry
    /\ sessions = <<>>
    /\ handles = NoHandles
    /\ last_op = "none"
    /\ singleton = FALSE

\* FunctionToolRegistry.initialize on the registry `reg`, raising at `fail`:
\* what it leaves, and how it ends
Initialize(reg, sess, hnd, cfg, fail) ==
    IF AlreadyInitialized(reg)
    THEN [registry |-> reg, sessions |-> sess, handles |-> hnd, ended |-> "returned"]
    ELSE LET built   == InstancesBefore(ToolOrder, cfg, fail)
             partial == [initialized    |-> FALSE,
                         tool_instances |-> reg.tool_instances \cup built,
                         tools          |-> reg.tools \cup built]
             fresh   == [t \in DOMAIN hnd |-> IF t \in built THEN 0 ELSE hnd[t]]
         IN  IF fail = "none"
             THEN [registry |-> [partial EXCEPT !.initialized = TRUE,
                                                !.tools = @ \cup SpecializedTools],
                   sessions |-> sess, handles |-> fresh, ended |-> "done"]
             ELSE LET after == Cleanup(partial, sess, fresh)
                  IN  [registry |-> after.registry, sessions |-> after.sessions,
                       handles |-> after.handles, ended |-> "raised"]

\* a call of FunctionToolRegistry.initialize
initialize(fail) ==
    /\ driver = "registry"
    /\ fail \in FailPoints(settings)
    /\ LET after == Initialize(registry, sessions, handles, settings, fail)
       IN  /\ registry' = after.registry
           /\ sessions' = after.sessions
           /\ handles' = after.handles
           /\ last_op' = IF after.ended = "returned" THEN "initialize_returned"
                          ELSE IF after.ended = "done" THEN "initialize_done"
                          ELSE "initialize_raised"
    /\ UNCHANGED <<settings, singleton>>
    /\ RegistryOnly

\* get_function_tool_registry: the first call constructs the registry,
\* stores it in _registry_instance and then initializes it; a later call
\* returns _registry_instance as it is
get_function_tool_registry(fail) ==
    /\ driver = "registry"
    /\ fail \in FailPoints(settings)
    /\ IF ~singleton
       THEN LET after == Initialize(NewRegistry, sessions, NoHandles, settings, fail)
            IN  /\ registry' = after.registry
                /\ sessions' = after.sessions
                /\ handles' = after.handles
                /\ last_op' = IF after.ended = "raised" THEN "get_raised"
                               ELSE "get_returned"
       ELSE /\ last_op' = "get_returned"
            /\ UNCHANGED <<registry, sessions, handles>>
    /\ singleton' = TRUE
    /\ UNCHANGED settings
    /\ RegistryOnly

\* cleanup_function_tools
cleanup_function_tools ==
    /\ driver = "registry"
    /\ IF singleton
       THEN LET after == Cleanup(registry, sessions, handles)
            IN  /\ registry' = after.registry
                /\ sessions' = after.sessions
                /\ handles' = after.handles
       ELSE UNCHANGED <<registry, sessions, handles>>
    /\ singleton' = FALSE
    /\ last_op' = "cleanup_function_tools"
    /\ UNCHANGED settings
    /\ RegistryOnly

\* a call of a registered tool function that makes the tool instance open
\* its session: _ensure_session of BraveSearchTool, the first request of the
\* client of LLMEnhancerTool
tool_call(t) ==
    /\ driver = "registry"
    /\ registry.initialized
    /\ t \in registry.tool_instances /\ HoldsSession(t)
    /\ handles[t] = 0
    /\ Len(sessions) < MaxSessions
    /\ sessions' = Append(sessions, NewSession(t))
    /\ handles' = [handles EXCEPT ![t] = Len(sessions) + 1]
    /\ last_op' = "tool_call"
    /\ UNCHANGED <<settings, registry, singleton>>
    /\ RegistryOnly

\* FunctionToolRegistry.cleanup
cleanup ==
    /\ driver = "registry"
    /\ LET after == Cleanup(registry, sessions, handles)
       IN  /\ registry' = after.registry
           /\ sessions' = after.sessions
           /\ handles' = after.handles
    /\ last_op' = "cleanup"
    /\ UNCHANGED <<settings, singleton>>
    /\ RegistryOnly

RegistryNext ==
    \/ \E fail \in Range(ToolOrder) \cup {"none"} : initialize(fail)
    \/ \E t \in Range(ToolOrder) : tool_call(t)
    \/ cleanup
    \/ \E fail \in Range(ToolOrder) \cup {"none"} : get_function_tool_registry(fail)
    \/ cleanup_function_tools

RegistrySpec == InitRegistry /\ [][RegistryNext]_vars

-----------------------------------------------------------------------------
(* The merge functions, applied to document lists drawn from a small set   *)
(* of documents: _deduplicate_documents as phase 3b applies it to          *)
(* retrieved_documents + external_documents, _consolidate_results as it    *)
(* runs over the documents of the results in order, merge_with on the      *)
(* documents of two results.                                               *)

\* the longest document list the model merges
MaxMergeLen == 2

\* ids 1 and 2 and the missing id; two classes of content[:200]
MergeDocs == {Doc(i, c, 50) : i \in 0..2, c \in 1..2}

DocLists == UNION {[1..n -> MergeDocs] : n \in 0..MaxMergeLen}

MergeFunctions == {"_deduplicate_documents", "_consolidate_results", "merge_with"}

\* what the merge function `f` returns for `a` merged with `b`
ApplyMerge(f, a, b) ==
    CASE f = "_deduplicate_documents" -> DeduplicateDocuments(a \o b)
      [] f = "_consolidate_results"   -> KeepFirstIds(a \o b, {}, <<>>)
      [] f = "merge_with"             -> MergeWith(a, b)

InitMerge ==
    /\ driver = "merge"
    /\ pc = "tool"
    /\ query = QPlain
    /\ registered = AllAgents
    /\ planHangs = FALSE
    /\ needs_requery = FALSE
    /\ InitCommon
    /\ SearchIdle /\ RegistryIdle /\ CallIdle /\ TimingIdle /\ NetIdle
    /\ existing \in DocLists
    /\ incoming \in DocLists
    /\ merged = <<>>
    /\ merge_fn = "none"
    /\ merge_round = 0

\* the first merge of `incoming` into `existing`
merge(f) ==
    /\ driver = "merge"
    /\ merge_round = 0
    /\ merged' = ApplyMerge(f, existing, incoming)
    /\ merge_fn' = f
    /\ merge_round' = 1
    /\ UNCHANGED <<existing, incoming>>
    /\ MergeOnly

\* the same list arrives again and is merged into the merged list
merge_again ==
    /\ driver = "merge"
    /\ merge_round = 1
    /\ existing' = merged
    /\ merged' = ApplyMerge(merge_fn, merged, incoming)
    /\ merge_round' = 2
    /\ UNCHANGED <<incoming, merge_fn>>
    /\ MergeOnly

MergeNext ==
    \/ \E f \in MergeFunctions : merge(f)
    \/ merge_again

MergeSpec == InitMerge /\ [][MergeNext]_vars

-----------------------------------------------------------------------------
(* Refined queries.  QueryPlanningAgent._create_strategy builds, for the   *)
(* agents it recommends, a query string out of fixed terms and the         *)
(* entities and keywords of the query; the model keeps for which agent     *)
(* and from which query it was built.                                      *)

RefinedQuery(a, q) == [refined_for |-> a, original |-> q]

\* the agents _create_strategy builds a refined query for
RefinedAgents(intent_type, c) ==
    (CASE intent_type = "regulatory_guidance"  -> {"RegulationAgent", "CaseLawAgent"}
       [] intent_type = "precedent_analysis"   -> {"PrecedentAgent", "CaseLawAgent"}
       [] intent_type = "transaction_analysis" -> {"PrecedentAgent", "ExpertAgent", "CaseLawAgent"}
       [] OTHER                                -> {"RegulationAgent", "CaseLawAgent"})
    \cup (IF c \in {"complex", "expert"} THEN {"ExpertAgent"} ELSE {})

\* strategy["refined_queries"] of QueryPlanningAgent._create_strategy
CreateRefinedQueries(q, c) ==
    [a \in RefinedAgents(q.intent, c) |-> RefinedQuery(a, q)]

\* state.pipeline_metadata.get('strategy', {}).get('refined_queries', {})
\* in _step2_vector_retrieval: _step1_query_submission constructs the
\* state without pipeline_metadata and stores nothing in it
PipelineRefinedQueries == EmptyDict

\* the query of the state _create_state_for_agent builds
CreateStateForAgent(original_query, agent_name, refined_queries) ==
    IF agent_name \in DOMAIN refined_queries
    THEN refined_queries[agent_name]
    ELSE original_query

\* the query of the state the task of agent `a` was created with:
\* _step2_vector_retrieval creates a state for the agent,
\* phase3_retrieval and phase3b_external_enrichment pass `state` itself
TaskQuery(a) ==
    IF driver = "rag"
    THEN CreateStateForAgent(query, a, PipelineRefinedQueries)
    ELSE query

-----------------------------------------------------------------------------
(* Functions applied on their own.  `args` names the function and holds    *)
(* its arguments; the action of the function stores what it returns.       *)

\* the longest document list handed to the functions that cap it
MaxInputDocs == 27

\* n different documents with different relevance scores
NumberedDocs(n) == [i \in 1..n |-> Doc(i, i, (i * 37) % 100)]

\* the arguments of _apply_final_refinement and of phase4_synthesis: the
\* documents of the state
RefinementArgs ==
    {[fn |-> f, n |-> n] : f \in {"_apply_final_refinement", "phase4_synthesis"},
                           n \in 0..MaxInputDocs}

\* the function `f` has its arguments and has not been applied
Callable(f) == driver = "call" /\ call = "none" /\ args.fn = f

\* the largest counts of entities, keywords and words of the queries whose
\* complexity is determined
MaxEntities == 4
MaxKeywords == 9
MaxWords == 21

\* what _determine_complexity reads of a query: the counts around its
\* thresholds (one entity, more than 1, more than 3; more than 5 and more
\* than 8 keywords; more than 10 and more than 20 words)
Counts == [ents : 0..MaxEntities, kws : 4..MaxKeywords, words : 9..MaxWords]

\* two queries of the same intent type, the second with no smaller count
ComplexityArgs ==
    {x \in [fn : {"_determine_complexity"}, a : Counts, b : Counts,
            intent_type : {"general_guidance", "precedent_analysis"}] :
        x.b.ents >= x.a.ents /\ x.b.kws >= x.a.kws /\ x.b.words >= x.a.words}

\* the most documents a synthesis is given
MaxSynthDocs == 2

\* llm_confidence, in percent: of _fallback_synthesis, of
\* _estimate_llm_confidence for a short plain response, of the except block
\* of _synthesize_complex_analysis, and the default of the expert analysis
FALLBACK_CONFIDENCE == 30
BASE_LLM_CONFIDENCE == 70
UNAVAILABLE_CONFIDENCE == 50
EXPERT_DEFAULT_CONFIDENCE == 80

\* what client.chat.completions.create does: it returns a response or raises
LLMResponses == {"ok", "fail"}

\* the sub-calls of _complex_llm_synthesis: regulatory_analysis,
\* precedent_analysis, risk_assessment, implementation_guidance
ANALYSIS_TASKS == 4

\* max(state.retrieved_documents, key=relevance_score): the first document
\* of the highest score
RECURSIVE TopDocFrom(_, _)
TopDocFrom(docs, best) ==
    IF docs = <<>> THEN best
    ELSE TopDocFrom(Tail(docs), IF Head(docs).rel > best.rel THEN Head(docs) ELSE best)

NoDoc == Doc(0, 0, 0)

Synthesis(kind, conf, sub_calls, final_calls, top) ==
    [kind |-> kind, llm_confidence |-> conf, sub_calls |-> sub_calls,
     final_calls |-> final_calls, top_doc |-> top]

\* LLMSynthesisService._fallback_synthesis after `calls` calls of the model
FallbackSynthesis(docs, calls) ==
    IF docs = <<>> THEN Synthesis("no_documents", 0, 0, calls, NoDoc)
    ELSE Synthesis("rule_based", FALLBACK_CONFIDENCE, 0, calls,
                   TopDocFrom(Tail(docs), Head(docs)))

\* _simple_llm_synthesis and _moderate_llm_synthesis: one call
SingleCallSynthesis(kind, docs, response) ==
    IF response = "fail" THEN FallbackSynthesis(docs, 1)
    ELSE Synthesis(kind, BASE_LLM_CONFIDENCE, 0, 1, NoDoc)

\* _complex_llm_synthesis: a failed sub-call leaves a note in its place,
\* then _synthesize_complex_analysis makes the final call
ComplexSynthesis(docs, responses) ==
    IF responses[ANALYSIS_TASKS + 1] = "fail"
    THEN Synthesis("unavailable", UNAVAILABLE_CONFIDENCE, ANALYSIS_TASKS, 1, NoDoc)
    ELSE Synthesis("complex", BASE_LLM_CONFIDENCE, ANALYSIS_TASKS, 1, NoDoc)

\* _expert_llm_synthesis: one call with a function call
ExpertSynthesis(docs, response) ==
    IF response = "fail" THEN FallbackSynthesis(docs, 1)
    ELSE Synthesis("expert", EXPERT_DEFAULT_CONFIDENCE, 0, 1, NoDoc)

\* LLMSynthesisService.synthesize; responses[i] is what the i-th call of
\* the language model does
Synthesize(c, docs, responses) ==
    CASE c = "simple"  -> SingleCallSynthesis("simple", docs, responses[1])
      [] c = "complex" -> ComplexSynthesis(docs, responses)
      [] c = "expert"  -> ExpertSynthesis(docs, responses[1])
      [] OTHER         -> SingleCallSynthesis("moderate", docs, responses[1])

SynthesizeArgs ==
    [fn : {"synthesize"}, complexity : Tiers, n : 0..MaxSynthDocs,
     responses : [1..(ANALYSIS_TASKS + 1) -> LLMResponses]]

synthesize ==
    /\ Callable("synthesize")
    /\ call' = args.fn
    /\ ret' = Synthesize(args.complexity, NumberedDocs(args.n), args.responses)
    /\ UNCHANGED args
    /\ CallOnly

\* the most documents and the finest steps of confidence the quality gates
\* are applied to
MaxDocCount == 5
ConfidenceSteps == 20

Confidences == {5 * k : k \in 0..ConfidenceSteps}

\* the same documents, tier and query with two average confidences, the
\* second not higher than the first
GateArgs ==
    {x \in [fn : {"quality_check_node", "_needs_external_sourcing"},
            doc_count : 0..MaxDocCount, complexity : Tiers,
            hi : Confidences, lo : Confidences] : x.lo <= x.hi}

\* quality_check_node on a state whose internal agents have the average
\* confidence hi, and on the same state with the average confidence lo
quality_check_node_twice ==
    /\ Callable("quality_check_node")
    /\ call' = args.fn
    /\ LET docs == NumberedDocs(args.doc_count)
           scores(conf) == [a \in {"RegulationAgent"} |-> conf]
       IN  ret' = [hi |-> QualityCheckNode(docs, scores(args.hi)).needs_external_enrichment,
                   lo |-> QualityCheckNode(docs, scores(args.lo)).needs_external_enrichment]
    /\ UNCHANGED args
    /\ CallOnly

\* _needs_external_sourcing with the average confidence hi and with lo
needs_external_sourcing_twice ==
    /\ Callable("_needs_external_sourcing")
    /\ call' = args.fn
    /\ ret' = [hi |-> NeedsExternalSourcing(args.doc_count, args.hi, args.complexity),
               lo |-> NeedsExternalSourcing(args.doc_count, args.lo, args.complexity)]
    /\ UNCHANGED args
    /\ CallOnly

\* _determine_complexity on each of the two queries
determine_complexity ==
    /\ Callable("_determine_complexity")
    /\ call' = args.fn
    /\ ret' = [a |-> TierOfScore(ComplexityScore(args.a.ents, args.a.kws,
                                                 args.a.words, args.intent_type)),
               b |-> TierOfScore(ComplexityScore(args.b.ents, args.b.kws,
                                                 args.b.words, args.intent_type))]
    /\ UNCHANGED args
    /\ CallOnly

\* _apply_final_refinement on the same documents for each tier
apply_final_refinement ==
    /\ Callable("_apply_final_refinement")
    /\ call' = args.fn
    /\ ret' = [t \in Tiers |-> ApplyFinalRefinement(NumberedDocs(args.n), t)]
    /\ UNCHANGED args
    /\ CallOnly

\* the documents phase4_synthesis hands to synthesis_service.synthesize and
\* counts as documents_retrieved: state.retrieved_documents, for each tier
phase4_documents ==
    /\ Callable("phase4_synthesis")
    /\ call' = args.fn
    /\ ret' = [t \in Tiers |-> NumberedDocs(args.n)]
    /\ UNCHANGED args
    /\ CallOnly

\* the confidences of the two runs compared: the agents' retrieval
\* confidences of each run, and the llm_confidence both syntheses returned
ScoredAgents == {"CaseLawAgent", "RegulationAgent"}
AgentConfidences == [ScoredAgents -> {0, 50, 100}]
FinalConfidenceArgs ==
    [fn : {"_create_synthesis_result", "_generate_final_output"},
     llm_confidence : {FALLBACK_CONFIDENCE, UNAVAILABLE_CONFIDENCE,
                       BASE_LLM_CONFIDENCE, EXPERT_DEFAULT_CONFIDENCE},
     run_a : AgentConfidences, run_b : AgentConfidences]

\* RAGOrchestrator._create_synthesis_result: the confidence of the
\* SynthesisResult process_query returns, in percent; `results` carries the
\* agents' confidences, which go to metadata['agent_results'] only
SynthesisResultConfidence(llm_confidence, results) == llm_confidence

\* PhaseExecutor._generate_final_output: the 'confidence' string of the final
\* output, f"{overall_confidence:.1%}", as the number of tenths of a percent
FinalOutputConfidence(llm_confidence, scores) ==
    IF DOMAIN scores = {} THEN 0
    ELSE LET agent_confidence ==
                 SumOver(scores, DOMAIN scores) \div Cardinality(DOMAIN scores)
         IN  agent_confidence * 6 + llm_confidence * 4

\* _create_synthesis_result in two runs that share the synthesis confidence
create_synthesis_result ==
    /\ Callable("_create_synthesis_result")
    /\ call' = args.fn
    /\ ret' = [a |-> SynthesisResultConfidence(args.llm_confidence, args.run_a),
               b |-> SynthesisResultConfidence(args.llm_confidence, args.run_b)]
    /\ UNCHANGED args
    /\ CallOnly

\* _generate_final_output in two runs that share the synthesis confidence
generate_final_output ==
    /\ Callable("_generate_final_output")
    /\ call' = args.fn
    /\ ret' = [a |-> FinalOutputConfidence(args.llm_confidence, args.run_a),
               b |-> FinalOutputConfidence(args.llm_confidence, args.run_b)]
    /\ UNCHANGED args
    /\ CallOnly

\* A query string as the sequence of the lengths of its words, the words
\* being joined by single spaces; a word of length 0 at the end stands for a
\* trailing space.  A term is a word with what the filters of the query
\* builders test of it.
Term(word, len) == [word |-> word, len |-> len]

\* len(s)
StrLen(ws) == IF ws = <<>> THEN 0 ELSE JoinedLen(ws)

\* s[:n]
RECURSIVE Slice(_, _)
Slice(ws, n) ==
    IF ws = <<>> THEN <<>>
    ELSE IF Head(ws) >= n \/ Tail(ws) = <<>> THEN <<IF Head(ws) >= n THEN n ELSE Head(ws)>>
    ELSE <<Head(ws)>> \o Slice(Tail(ws), n - Head(ws) - 1)

\* ' '.join(s.split())
Normalised(ws) == SelectSeq(ws, LAMBDA w : w > 0)

\* s.rfind(' ')
LastSpace(ws) == IF Len(ws) <= 1 THEN 0 - 1 ELSE StrLen(SubSeq(ws, 1, Len(ws) - 1))

\* lst[:n]
FirstOf(lst, n) == SubSeq(lst, 1, IF Len(lst) < n THEN Len(lst) ELSE n)

\* the entities and keywords the model lets a query have
MaxQueryEntities == 2
MaxQueryKeywords == 5

\* the slice every _create_*_query returns: query[:390]
REFINED_QUERY_LIMIT == 390

Lens(terms) == [i \in DOMAIN terms |-> terms[i].len]

\* the _create_*_query functions of QueryPlanningAgent, by their names
CreateQuery(fn, entities, keywords) ==
    LET Fixed(w)  == Term("fixed", w)
        Has338(e) == e.word = "338"
        NotStop(k) == k.word # "the"
        parts ==
          CASE fn = "regulation" ->
                 FirstOf(FirstOf(entities, 2)
                         \o FirstOf(FirstOf(SelectSeq(keywords, LAMBDA k : k.len > 3), 4), 3), 6)
            [] fn = "precedent" ->
                 <<Fixed(9), Fixed(7), Fixed(11)>> \o FirstOf(entities, 2)
            [] fn = "transaction_precedent" ->
                 <<Fixed(6), Fixed(11)>>
                 \o FirstOf(SelectSeq(entities, LAMBDA e : Has338(e) \/ e.word = "election"), 2)
            [] fn = "expert" ->
                 <<Fixed(8)>> \o FirstOf(entities, 2)
                 \o FirstOf(SelectSeq(keywords, LAMBDA k : k.word = "tax"), 3)
            [] fn = "caselaw" ->
                 <<Fixed(4)>> \o FirstOf(entities, 2)
            [] fn = "transaction_caselaw" ->
                 <<Fixed(6), Fixed(4)>> \o FirstOf(SelectSeq(entities, Has338), 1)
            [] fn = "general_regulation" ->
                 FirstOf(SelectSeq(keywords, NotStop), 5)
            [] fn = "general_caselaw" ->
                 FirstOf(SelectSeq(keywords, NotStop), 4) \o <<Fixed(4)>>
    IN  Slice(Lens(parts), REFINED_QUERY_LIMIT)

\* which function _create_strategy builds the refined query of agent `a` with
QueryBuilder(a, intent_type) ==
    CASE a = "ExpertAgent" -> "expert"
      [] intent_type = "regulatory_guidance" ->
             IF a = "RegulationAgent" THEN "regulation" ELSE "caselaw"
      [] intent_type = "precedent_analysis" ->
             IF a = "PrecedentAgent" THEN "precedent" ELSE "caselaw"
      [] intent_type = "transaction_analysis" ->
             IF a = "PrecedentAgent" THEN "transaction_precedent" ELSE "transaction_caselaw"
      [] OTHER ->
             IF a = "RegulationAgent" THEN "general_regulation" ELSE "general_caselaw"

\* the agents whose call_function_tools calls brave_search, and the length
\* of self.name.replace('Agent', '').lower()
BraveCallers == {"CaseLawAgent", "PrecedentAgent", "ExpertAgent"}
RoleWordLen(a) ==
    CASE a = "CaseLawAgent" -> 7 [] a = "PrecedentAgent" -> 9 [] OTHER -> 6

\* search_query of call_function_tools: f"tax {role} {query}"
SearchQueryOf(a, ws) == <<3, RoleWordLen(a)>> \o (IF ws = <<>> THEN <<0>> ELSE ws)

\* params["q"] of BraveSearchTool.search: the validated query
ValidatedQuery(ws) ==
    LET q == Normalised(ws)
    IN  ValidateAndTruncate(SearchQ(StrLen(q), q, LastSpace(Slice(q, MAX_QUERY_LENGTH))))

EntityTerms == {Term("338", 3), Term("other", 250)}
KeywordTerms ==
    {Term("tax", 3), Term("other", 64), Term("other", 130), Term("other", 395)}

SeqsUpTo(S, n) == UNION {[1..k -> S] : k \in 0..n}

RefinedQueryArgs ==
    [fn : {"_create_strategy"},
     intent_type : {"regulatory_guidance", "precedent_analysis",
                    "transaction_analysis", "general_guidance"},
     complexity : {"moderate", "complex"},
     entities : SeqsUpTo(EntityTerms, MaxQueryEntities),
     keywords : SeqsUpTo(KeywordTerms, MaxQueryKeywords)]

\* _create_strategy builds the refined queries, and each agent that calls
\* brave_search in call_function_tools sends its query: the lengths of the
\* refined queries, of the search queries handed to the tool, and of the
\* queries the tool sends
create_strategy ==
    /\ Callable("_create_strategy")
    /\ call' = args.fn
    /\ LET agents == RefinedAgents(args.intent_type, args.complexity)
           refined == [a \in agents |->
                          CreateQuery(QueryBuilder(a, args.intent_type),
                                      args.entities, args.keywords)]
           callers == agents \cap BraveCallers
       IN  ret' = [refined |-> [a \in agents |-> StrLen(refined[a])],
                   asked   |-> [a \in callers |-> StrLen(SearchQueryOf(a, refined[a]))],
                   sent    |-> [a \in callers |->
                                   ValidatedQuery(SearchQueryOf(a, refined[a])).len]]
    /\ UNCHANGED args
    /\ CallOnly

\* <Agent>.process of the internal retrieval agents.  A document is its id,
\* its relevance_score in percent, whether the credibility and expertise
\* tests of ExpertAgent pass on it, and its source.  The query names no
\* regulation, the documents carry no date and no cross-reference, and the
\* authority score of a document of ExpertAgent is its relevance.
IDoc(i, r, c, s) == [id |-> i, rel |-> r, credible |-> c, source |-> s]

TOP_K_RESULTS == 10
VECTOR_SIMILARITY_THRESHOLD == 70
HIGH_QUALITY_RELEVANCE == 80

\* the internal documents the model hands to an agent
MaxInternalDocs == 2

InternalDocs ==
    {IDoc(i, r, c, "internal") : i \in 1..2, r \in {60, 90}, c \in BOOLEAN}

\* the document the function tools deliver when an agent calls them
ToolDoc == IDoc(3, 80, TRUE, "tool")

RECURSIVE Rels(_)
Rels(docs) == IF docs = <<>> THEN <<>> ELSE <<Head(docs).rel>> \o Rels(Tail(docs))

\* sorted(..., reverse=True) on the relevance: descending, equal elements in
\* their original order
RECURSIVE InsertByRelevance(_, _)
InsertByRelevance(sorted, d) ==
    IF sorted = <<>> THEN <<d>>
    ELSE IF d.rel > Head(sorted).rel THEN <<d>> \o sorted
    ELSE <<Head(sorted)>> \o InsertByRelevance(Tail(sorted), d)

RECURSIVE SortByRelevance(_)
SortByRelevance(docs) ==
    IF docs = <<>> THEN <<>>
    ELSE InsertByRelevance(SortByRelevance(SubSeq(docs, 1, Len(docs) - 1)),
                           docs[Len(docs)])

\* BaseAgent.should_use_function_tools
ShouldUseFunctionTools(has_external_keyword, internal_results) ==
    IF internal_results = <<>> THEN TRUE
    ELSE IF SumSeq(Rels(internal_results)) < CONFIDENCE_THRESHOLD * Len(internal_results)
    THEN TRUE
    ELSE IF has_external_keyword THEN TRUE
    ELSE Len(internal_results) < 2

\* CaseLawAgent._filter_by_relevance
FilterByRelevance(documents) ==
    LET Relevant(d) == d.rel >= VECTOR_SIMILARITY_THRESHOLD
    IN  SortByRelevance(SelectSeq(documents, Relevant))

\* ExpertAgent._apply_domain_specific_filtering
ApplyDomainSpecificFiltering(documents) ==
    LET Credible(d) == d.credible
    IN  SelectSeq(documents, Credible)

\* the documents an agent keeps of what its internal search found
FilteredDocs(agent, internal_docs) ==
    CASE agent = "CaseLawAgent" -> FilterByRelevance(internal_docs)
      [] agent = "ExpertAgent"  -> ApplyDomainSpecificFiltering(internal_docs)
      [] OTHER                  -> internal_docs

\* the loop of the _merge_and_rank functions: the first document of each
\* id, up to top_k_results documents
RECURSIVE MergeFrom(_, _, _)
MergeFrom(ranked, seen_ids, kept) ==
    IF ranked = <<>> \/ Len(kept) >= TOP_K_RESULTS THEN kept
    ELSE LET doc == Head(ranked)
         IN  IF doc.id \notin seen_ids
             THEN MergeFrom(Tail(ranked), seen_ids \cup {doc.id}, Append(kept, doc))
             ELSE MergeFrom(Tail(ranked), seen_ids, kept)

\* _merge_and_rank_results, _merge_and_rank_precedents and
\* _merge_and_rank_expert_results
MergeAndRank(agent, documents) ==
    MergeFrom(SortByRelevance(IF agent = "ExpertAgent"
                              THEN ApplyDomainSpecificFiltering(documents)
                              ELSE documents),
              {}, <<>>)

Min(a, b) == IF a < b THEN a ELSE b

\* _calculate_confidence of each agent, in percent
CalculateConfidence(agent, documents) ==
    LET n       == Len(documents)
        total   == SumSeq(Rels(documents))
        sources == Cardinality({documents[i].source : i \in DOMAIN documents})
        high_quality ==
            Cardinality({i \in DOMAIN documents :
                            documents[i].rel >= HIGH_QUALITY_RELEVANCE})
    IN  CASE agent = "PrecedentAgent" ->
                 IF n = 0 THEN 30
                 ELSE Min(50 + Min(20, 5 * high_quality) + (IF n >= 5 THEN 10 ELSE 0), 95)
          [] n = 0 -> 0
          [] agent = "CaseLawAgent" ->
                 (total * Min(n, 3) * Min(sources, 3)) \div (n * 9)
          [] agent = "RegulationAgent" ->
                 (Min(95, (total \div n) + Min(5 * sources, 20)) * Min(n, 3)) \div 3
          [] OTHER -> Min(total \div n, 100)

\* <Agent>.process on the documents its internal search found; has_tools
\* tells whether the agent was given function tools.  ExpertAgent binds
\* specialized_results only in the branch that uses the tools and reads it
\* when it builds the metadata of its result.
Process(agent, internal_docs, has_external_keyword, has_tools) ==
    LET filtered_docs == FilteredDocs(agent, internal_docs)
        use_function_tools ==
            ShouldUseFunctionTools(has_external_keyword,
                                   IF agent = "ExpertAgent" THEN filtered_docs
                                   ELSE internal_docs)
        tools_called  == use_function_tools /\ has_tools
        enhanced_docs == IF tools_called THEN <<ToolDoc>> ELSE <<>>
        final_docs    == MergeAndRank(agent, filtered_docs \o enhanced_docs)
        confidence    == CalculateConfidence(agent, final_docs)
        specialized_results_bound == use_function_tools
    IN  [used_function_tools |-> use_function_tools,
         tools_called |-> tools_called,
         result |-> IF agent = "ExpertAgent" /\ ~specialized_results_bound
                    THEN Result(<<>>, 0, "exception")
                    ELSE Result(final_docs, confidence, "none")]

ProcessArgs ==
    [fn : {"process"},
     agent : InternalAgents,
     internal_docs : SeqsUpTo(InternalDocs, MaxInternalDocs),
     has_external_keyword : BOOLEAN,
     has_tools : BOOLEAN]

\* a call of <Agent>.process
process ==
    /\ Callable("process")
    /\ call' = args.fn
    /\ ret' = Process(args.agent, args.internal_docs, args.has_external_keyword,
                      args.has_tools)
    /\ UNCHANGED args
    /\ CallOnly

CallArgs ==
    RefinementArgs \cup ComplexityArgs \cup GateArgs \cup SynthesizeArgs
        \cup FinalConfidenceArgs \cup RefinedQueryArgs \cup ProcessArgs

InitCall ==
    /\ driver = "call"
    /\ pc = "tool"
    /\ query = QPlain
    /\ registered = AllAgents
    /\ planHangs = FALSE
    /\ needs_requery = FALSE
    /\ InitCommon
    /\ SearchIdle /\ RegistryIdle /\ MergeIdle /\ TimingIdle /\ NetIdle
    /\ call = "none"
    /\ args \in CallArgs
    /\ ret = <<>>

CallNext ==
    \/ determine_complexity
    \/ quality_check_node_twice
    \/ needs_external_sourcing_twice
    \/ synthesize
    \/ apply_final_refinement
    \/ phase4_documents
    \/ create_synthesis_result
    \/ generate_final_output
    \/ create_strategy
    \/ process

CallSpec == InitCall /\ [][CallNext]_vars

-----------------------------------------------------------------------------
(* Timed fan-out.  The fan-outs of the PhaseExecutor and of the RAG        *)
(* orchestrator with a clock: every task is created at time 0, the         *)
(* process() of an agent takes `dur` ticks, and asyncio.wait_for cancels   *)
(* what it awaits when its timeout has elapsed since wait_for was called.  *)

\* settings.agent_timeout and the timeout of wait_for in
\* _step2_vector_retrieval, both 30 seconds, in ticks of the clock
AGENT_TIMEOUT == 2

\* the longest process() of the model, in ticks
MaxDuration == 5

\* the tasks of the fan-out, in the order of their creation
TimedAgents == <<"CaseLawAgent", "RegulationAgent", "PrecedentAgent">>

\* the task the collection loop of _step2_vector_retrieval awaits
Awaited == TimedAgents[timing.idx]

Collecting == timing.impl = "rag" /\ timing.idx <= Len(TimedAgents)

Running(a) == timing.st[a] = "running"

\* something happens at this time, before the clock goes on
Due ==
    \/ \E a \in Range(TimedAgents) :
         Running(a) /\ (timing.now = timing.dur[a]
                        \/ (timing.impl = "phases" /\ timing.now = AGENT_TIMEOUT))
    \/ Collecting /\ (~Running(Awaited) \/ timing.now = timing.wait_from + AGENT_TIMEOUT)

InitTiming ==
    /\ driver = "timing"
    /\ pc = "tool"
    /\ query = QPlain
    /\ registered = AllAgents
    /\ planHangs = FALSE
    /\ needs_requery = FALSE
    /\ InitCommon
    /\ SearchIdle /\ RegistryIdle /\ MergeIdle /\ CallIdle /\ NetIdle
    /\ \E impl \in {"phases", "rag"} :
       \E dur \in [Range(TimedAgents) -> 1..MaxDuration] :
         timing = [impl |-> impl, now |-> 0, dur |-> dur,
                   st |-> [a \in Range(TimedAgents) |-> "running"],
                   ended |-> [a \in Range(TimedAgents) |-> 0],
                   idx |-> 1, wait_from |-> 0]

\* time passes
tick ==
    /\ driver = "timing"
    /\ ~Due
    /\ Collecting \/ \E a \in Range(TimedAgents) : Running(a)
    /\ timing' = [timing EXCEPT !.now = @ + 1]
    /\ TimingOnly

\* agent.process returns
process_returns(a) ==
    /\ driver = "timing"
    /\ Running(a) /\ timing.now = timing.dur[a]
    /\ timing' = [timing EXCEPT !.st[a] = "returned", !.ended[a] = timing.now]
    /\ TimingOnly

\* _run_agent_with_timeout: the wait_for inside the task of agent `a`,
\* called when the task starts, expires
run_agent_times_out(a) ==
    /\ driver = "timing" /\ timing.impl = "phases"
    /\ Running(a) /\ timing.now = AGENT_TIMEOUT
    /\ timing' = [timing EXCEPT !.st[a] = "cancelled", !.ended[a] = timing.now]
    /\ TimingOnly

\* _step2_vector_retrieval: wait_for(task, timeout=30.0) returns the result
\* of a task that has ended, and the loop calls wait_for on the next task
wait_for_returns ==
    /\ driver = "timing" /\ Collecting
    /\ ~Running(Awaited)
    /\ timing' = [timing EXCEPT !.idx = @ + 1, !.wait_from = timing.now]
    /\ TimingOnly

\* _step2_vector_retrieval: wait_for expires, cancels the task it awaits,
\* and the loop calls wait_for on the next task
wait_for_expires ==
    /\ driver = "timing" /\ Collecting
    /\ Running(Awaited) /\ timing.now = timing.wait_from + AGENT_TIMEOUT
    /\ timing' = [timing EXCEPT !.st[Awaited] = "cancelled",
                                !.ended[Awaited] = timing.now,
                                !.idx = @ + 1, !.wait_from = timing.now]
    /\ TimingOnly

TimingNext ==
    \/ tick
    \/ \E a \in Range(TimedAgents) : process_returns(a)
    \/ \E a \in Range(TimedAgents) : run_agent_times_out(a)
    \/ wait_for_returns
    \/ wait_for_expires

TimingSpec == InitTiming /\ [][TimingNext]_vars

-----------------------------------------------------------------------------
(* The search tool shared by concurrent tasks.  The registry holds one     *)
(* BraveSearchTool; the agents hold its brave_search callable.  A session  *)
(* is a number, 0 is None; `open` is the set of the sessions that are not  *)
(* closed.  A step is what a coroutine does between two suspensions.       *)

\* the concurrent calls of search and of cleanup the model follows
SearchTasks == {"search1", "search2"}
MaxCleanups == 2

InitSessions ==
    /\ driver = "sessions"
    /\ pc = "tool"
    /\ query = QPlain
    /\ registered = AllAgents
    /\ planHangs = FALSE
    /\ needs_requery = FALSE
    /\ InitCommon
    /\ SearchIdle /\ RegistryIdle /\ MergeIdle /\ CallIdle /\ TimingIdle
    /\ net = [session |-> 0, open |-> {}, made |-> 0, lock |-> "free",
              held |-> TRUE, closer |-> "idle", cleanups |-> 0,
              pc |-> [t \in SearchTasks |-> "idle"],
              using |-> [t \in SearchTasks |-> 0],
              attempt |-> [t \in SearchTasks |-> 0],
              recreate |-> [t \in SearchTasks |-> FALSE]]

\* BraveSearchTool._ensure_session with the lock free
EnsureSession(n) ==
    IF n.session = 0 \/ n.session \notin n.open
    THEN [n EXCEPT !.session = n.made + 1, !.open = @ \cup {n.made + 1},
                   !.made = @ + 1]
    ELSE n

\* self.session.get(...) of attempt `k` in the retry loop of search: the
\* request is sent on self.session; on None or on a closed session the call
\* raises, which `except Exception` turns into the next attempt
SendRequest(n, t, k) ==
    IF n.session # 0 /\ n.session \in n.open
    THEN [n EXCEPT !.pc[t] = "request", !.using[t] = n.session, !.attempt[t] = k,
                   !.recreate[t] = FALSE]
    ELSE IF k < MAX_RETRIES - 1
         THEN [n EXCEPT !.pc[t] = "sleep", !.using[t] = 0, !.attempt[t] = k + 1,
                        !.recreate[t] = FALSE]
         ELSE [n EXCEPT !.pc[t] = "done", !.using[t] = 0, !.recreate[t] = FALSE]

\* search up to its first request: _ensure_session, then session.get
search_begin(t) ==
    /\ driver = "sessions"
    /\ net.pc[t] = "idle" /\ net.lock = "free"
    /\ net' = SendRequest(EnsureSession(net), t, 0)
    /\ NetOnly

\* the request of search ends: with status 200, with a status or an
\* exception after which the loop sleeps and goes on, or with a ClientError,
\* after which it sleeps and calls _ensure_session
response(t, r) ==
    /\ driver = "sessions"
    /\ net.pc[t] = "request"
    /\ net' = IF r = "200" \/ net.attempt[t] >= MAX_RETRIES - 1
              THEN [net EXCEPT !.pc[t] = "done", !.using[t] = 0]
              ELSE [net EXCEPT !.pc[t] = "sleep", !.using[t] = 0,
                               !.attempt[t] = @ + 1,
                               !.recreate[t] = (r = "ClientError")]
    /\ NetOnly

\* the next attempt of search after its sleep
retry(t) ==
    /\ driver = "sessions"
    /\ net.pc[t] = "sleep"
    /\ net.recreate[t] => net.lock = "free"
    /\ net' = SendRequest(IF net.recreate[t] THEN EnsureSession(net) ELSE net,
                          t, net.attempt[t])
    /\ NetOnly

\* FunctionToolRegistry.cleanup up to the suspension of _close_session in
\* `await self.session.close()`, or to its end when there is no session to
\* close or no tool instance left
cleanup_begin ==
    /\ driver = "sessions"
    /\ net.closer = "idle" /\ net.cleanups < MaxCleanups /\ net.lock = "free"
    /\ net' = IF net.held /\ net.session # 0 /\ net.session \in net.open
              THEN [net EXCEPT !.open = @ \ {net.session}, !.lock = "cleanup",
                               !.closer = "closing"]
              ELSE [net EXCEPT !.held = FALSE, !.cleanups = @ + 1]
    /\ NetOnly

\* FunctionToolRegistry.cleanup from the return of session.close():
\* self.session = None, the lock is released, _tool_instances is cleared
cleanup_end ==
    /\ driver = "sessions"
    /\ net.closer = "closing"
    /\ net' = [net EXCEPT !.session = 0, !.lock = "free", !.closer = "idle",
                          !.held = FALSE, !.cleanups = @ + 1]
    /\ NetOnly

SessionsNext ==
    \/ \E t \in SearchTasks : search_begin(t)
    \/ \E t \in SearchTasks : \E r \in {"200", "retry", "ClientError"} : response(t, r)
    \/ \E t \in SearchTasks : retry(t)
    \/ cleanup_begin
    \/ cleanup_end

SessionsSpec == InitSessions /\ [][SessionsNext]_vars

-----------------------------------------------------------------------------
(* Specifications *)

Init == InitPhases \/ InitRag \/ InitGraph

Next == PhasesNext \/ RagNext \/ GraphNext

Spec == Init /\ [][Next]_vars

\* the event loop runs every task that can run; wait_for expires
FairSpec == Spec /\ WF_vars(Next)

TypeOK ==
    /\ driver \in {"phases", "rag", "graph", "search", "registry", "merge", "call",
                  "timing", "sessions"}
    /\ complexity \in Tiers
    /\ intent \in {"empty", "analyzed"}
    /\ final_output.status \in {"none", "success", "partial", "no_results", "error"}

-----------------------------------------------------------------------------
(* Vocabulary of the properties *)

Terminated == pc \in {"done", "returned", "END"}

\* the phases of each driver in the order of the pipeline; the optional
\* enrichment phase of the PhaseExecutor is "enrich"
MandatoryPhases ==
    CASE driver = "phases" -> <<"plan", "coordinate", "retrieve", "quality", "synthesize">>
      [] driver = "rag"    -> <<"step1", "step2", "step3", "step4", "step5">>
      [] OTHER             -> <<"query_processing", "agent_coordination",
                                "parallel_retrieval", "quality_check", "synthesis">>

\* a document or a duplicate of it (same non-empty id, or same content
\* fingerprint) is in the list
Represented(d, docs) ==
    \E i \in DOMAIN docs :
        \/ docs[i] = d
        \/ d.id # 0 /\ docs[i].id = d.id
        \/ docs[i].content = d.content

\* the fan-out of agent `a` has been joined and merged into the state
Joined(a) ==
    /\ task[a].st = "done"
    /\ \/ driver = "phases" /\ a \in InternalAgents
          /\ pc \in {"quality", "enrich", "enrich_join", "synthesize", "done"}
       \/ driver = "phases" /\ a \in ExternalAgents /\ pc \in {"synthesize", "done"}
       \/ driver = "rag" /\ pc = "step5"

\* the result the orchestrator recorded for agent `a`
Recorded(a) ==
    IF driver = "rag" THEN vector_results[a] ELSE agent_outputs[a]

HasRecord(a) ==
    IF driver = "rag" THEN a \in DOMAIN vector_results ELSE a \in DOMAIN agent_outputs

\* the entries of the error list that name a retrieval agent
AgentErrors == SelectSeq(errors, LAMBDA e : e.src \in RetrievalAgents)

-----------------------------------------------------------------------------
(* C1 *)

\* C1: in every run the phases are entered in pipeline order, none of them
\* a second time, none but the enrichment phase skipped, and the run ends
\* only after the synthesis phase
C1_PhaseOrder ==
    /\ \A p \in PhaseNames : entered[p] <= 1
    /\ \A i \in 2..Len(MandatoryPhases) :
           entered[MandatoryPhases[i]] >= 1 => entered[MandatoryPhases[i - 1]] >= 1
    /\ Terminated => entered[MandatoryPhases[Len(MandatoryPhases)]] = 1

-----------------------------------------------------------------------------
(* C2 *)

-----------------------------------------------------------------------------
(* C3 *)

\* C3: an agent whose wait_for expired is recorded with confidence 0, no
\* documents and the error tag "timeout"; the fan-out is joined all the
\* same, and every document of an agent that completed is represented in
\* the merged document list
C3_TimeoutContained ==
    \A a \in RetrievalAgents :
        /\ task[a].outcome = "timeout" => task[a].res = Result(<<>>, 0, "timeout")
        /\ Joined(a) /\ task[a].outcome = "timeout" =>
               HasRecord(a) /\ Recorded(a) = Result(<<>>, 0, "timeout")
        /\ Joined(a) /\ task[a].outcome = "docs" =>
               \A i \in DOMAIN AgentDocs(a) :
                   Represented(AgentDocs(a)[i], retrieved_documents)

\* a joined fan-out in which one agent timed out and another delivered
C3_Witness ==
    \E a, b \in RetrievalAgents :
        /\ Joined(a) /\ Joined(b)
        /\ task[a].outcome = "timeout"
        /\ task[b].outcome = "docs"
        /\ Contains(fanout, a) /\ Contains(fanout, b)
        /\ retrieved_documents # <<>>

-----------------------------------------------------------------------------
(* C4 *)

\* C4: every run of the PhaseExecutor and of process_query reaches its
\* final output, whichever agents never complete
C4_RunTerminates == (driver # "graph") => <>Terminated

-----------------------------------------------------------------------------
(* C5 *)

\* C5: after the join of a fan-out of two agents of which exactly one
\* raised, the document list is the deduplicated documents of the other and
\* the error list has exactly one entry for an agent, naming the one that
\* raised
C5_OneErrorNamesFailingAgent ==
    \A a, b \in InternalAgents :
        (/\ driver = "phases" /\ pc = "quality"
         /\ fanout \in {<<a, b>>, <<b, a>>}
         /\ a # b
         /\ task[a].outcome = "raise"
         /\ task[b].outcome \in {"docs", "empty"})
        => /\ retrieved_documents = DeduplicateDocuments(task[b].res.documents)
           /\ Len(AgentErrors) = 1
           /\ AgentErrors[1].src = a

-----------------------------------------------------------------------------
(* C6 *)

\* C6: the quality gate asks for enrichment exactly when the document count
\* is below the minimum, or the average confidence is below the threshold,
\* or the tier is expert, or the query asks for current or recent data
C6_GateFormula ==
    quality_check.set =>
        (quality_check.needs_external_enrichment <=>
            \/ quality_check.document_count < MIN_DOCS_THRESHOLD
            \/ quality_check.average_confidence < CONFIDENCE_THRESHOLD
            \/ complexity = "expert"
            \/ query.recent)

-----------------------------------------------------------------------------
(* C7 *)

\* the run is past the place of the enrichment phase
PastEnrichment ==
    \/ driver = "phases" /\ pc \in {"synthesize", "done"}
    \/ driver = "rag" /\ pc \in {"step4", "step5", "returned"}

EnrichmentPhase == IF driver = "rag" THEN "step3" ELSE "enrich"

\* C7: the enrichment phase runs exactly in the runs whose gate asked for
\* enrichment; when the gate asked for it, at least one external agent has
\* been invoked, and the documents the external agents returned are
\* represented in the document list that reaches the synthesis
C7_EnrichmentRunsAgents ==
    PastEnrichment =>
        /\ driver = "phases" =>
               (entered["enrich"] = 1 <=> quality_check.needs_external_enrichment)
        /\ quality_check.needs_external_enrichment =>
               /\ entered[EnrichmentPhase] = 1
               /\ \E a \in ExternalAgents : task[a].st = "done"
        /\ \A a \in ExternalAgents :
               task[a].outcome = "docs" =>
                   \A i \in DOMAIN AgentDocs(a) :
                       Represented(AgentDocs(a)[i], retrieved_documents)

-----------------------------------------------------------------------------
(* C8 *)

\* the internal fan-out is over and none of its agents delivered a document
InternalAgentsEmpty ==
    /\ \/ driver = "phases"
          /\ pc \in {"quality", "enrich", "enrich_join", "synthesize", "done"}
       \/ driver = "rag" /\ pc \in {"step3", "step4", "step5", "returned"}
    /\ \A a \in InternalAgents : task[a].res.documents = <<>>
    /\ \E a \in InternalAgents : task[a].st = "done"

-----------------------------------------------------------------------------
(* C9 *)

\* an agent's documents went into the join of its fan-out
DeliveredDocuments(a) == Joined(a) /\ task[a].outcome = "docs"

\* another agent of a joined fan-out failed or timed out
FailedOrTimedOut(a) == Joined(a) /\ task[a].outcome \in {"raise", "timeout"}

\* C9: the error output and the no-results output are produced only when
\* the document list is empty or the synthesis call raised; a run in which
\* an agent delivered documents while others failed or timed out, and whose
\* synthesis call returned, ends with the success or the partial output
C9_PartialResultsSucceed ==
    /\ final_output.status \in {"error", "no_results"} =>
           retrieved_documents = <<>> \/ synth = "raise"
    /\ (/\ driver = "phases" /\ pc = "done"
        /\ \E a \in RetrievalAgents : DeliveredDocuments(a)
        /\ synth # "raise")
       => final_output.status \in {"success", "partial"}
    /\ (/\ driver = "rag" /\ pc = "returned" /\ synth # "raise"
        /\ \E a \in InternalAgents : task[a].outcome = "docs")
       => final_output.status = "success"

\* a finished run with a recorded error in which one agent delivered and
\* another failed or timed out
C9_Witness ==
    /\ driver = "phases" /\ pc = "done"
    /\ \E a, b \in RetrievalAgents : DeliveredDocuments(a) /\ FailedOrTimedOut(b)
    /\ errors # <<>>
    /\ final_output.status = "partial"

-----------------------------------------------------------------------------
(* C10 *)

\* C10: a process() call that completed handed a RetrievalResult to the
\* orchestrator; when an exception was raised inside it, that result has
\* confidence 0, no documents and the error in its metadata
C10_AgentBoundary ==
    /\ \A a \in RetrievalAgents :
           task[a].st = "done" /\ task[a].outcome # "timeout" =>
               /\ task[a].raw.kind = "result"
               /\ task[a].outcome = "raise" =>
                      /\ task[a].raw = Result(<<>>, 0, "exception")
                      /\ task[a].res = Result(<<>>, 0, "exception")
    /\ "query_planning" \in DOMAIN agent_outputs =>
           /\ agent_outputs["query_planning"].kind = "result"
           /\ intent = "empty" =>
                  agent_outputs["query_planning"] = Result(<<>>, 0, "exception")

\* a joined fan-out in which a process() call raised internally
C10_Witness ==
    \E a \in RetrievalAgents :
        /\ Joined(a)
        /\ task[a].outcome = "raise"
        /\ Recorded(a).error = "exception"

-----------------------------------------------------------------------------
(* C11 *)

\* C11: one call of the search tool sends at most max_retries requests,
\* whatever the provider answers, and it returns a structured result
C11_BoundedAttempts ==
    driver = "search" =>
        /\ requests <= MAX_RETRIES
        /\ stack = <<>> => search_result \in {"data", "empty"}

-----------------------------------------------------------------------------
(* C12 *)

\* C12: no session is ever closed twice, and after cleanup() has run, on
\* its own or inside an initialize() that failed, every session that was
\* opened has been closed
C12_SessionsClosedOnce ==
    driver = "registry" =>
        /\ \A i \in DOMAIN sessions : sessions[i].closes <= 1
        /\ last_op \in {"cleanup", "initialize_raised"} =>
               \A i \in DOMAIN sessions : sessions[i].closes = 1

-----------------------------------------------------------------------------
(* C13 *)

\* no two documents of the list share a non-empty id, and no two share a
\* content fingerprint
NoDuplicateIdentity(docs) ==
    \A i, j \in DOMAIN docs :
        i < j => /\ ~(docs[i].id # 0 /\ docs[i].id = docs[j].id)
                 /\ docs[i].content # docs[j].content

\* the document list of the state has been aggregated from a fan-out
Aggregated ==
    \/ driver = "phases"
       /\ pc \in {"quality", "enrich", "enrich_join", "synthesize", "done"}
    \/ driver = "rag" /\ pc \in {"step5", "returned"}

\* C13: after a join and in the final output the aggregated document list
\* holds no document identity twice
C13_NoDuplicateIdentity == Aggregated => NoDuplicateIdentity(retrieved_documents)

-----------------------------------------------------------------------------
(* Merging *)

\* the document at position k of `docs` repeats an earlier document: the
\* same id when it has one, the same content fingerprint when it has none
RepeatsEarlier(docs, k) ==
    \E j \in 1..(k - 1) :
        \/ docs[k].id # 0 /\ docs[j].id = docs[k].id
        \/ docs[k].id = 0 /\ docs[j].content = docs[k].content

\* the documents of `docs` that repeat no earlier document, in order
RECURSIVE FirstSeenUpTo(_, _)
FirstSeenUpTo(docs, k) ==
    IF k = 0 THEN <<>>
    ELSE IF RepeatsEarlier(docs, k) THEN FirstSeenUpTo(docs, k - 1)
    ELSE Append(FirstSeenUpTo(docs, k - 1), docs[k])

FirstSeen(docs) == FirstSeenUpTo(docs, Len(docs))

\* C14: a merge keeps exactly the first-seen document of each identity: of
\* the sequence existing-then-incoming it drops a document if and only if
\* an earlier document has the same non-empty id or, for a document
\* without an id, the same content fingerprint
C14_KeepsFirstSeen ==
    (driver = "merge" /\ merge_round = 1) =>
        merged = FirstSeen(existing \o incoming)

\* C15: merging the same list in a second time changes nothing: for all
\* document lists A and B, merge(merge(A, B), B) = merge(A, B), where merge
\* is the deduplication of the concatenation that phase 3b applies
C15_MergeIdempotent ==
    (driver = "merge" /\ merge_fn = "_deduplicate_documents" /\ merge_round = 2) =>
        merged = existing

\* the second merge met documents it had kept and documents it had dropped
C15_Witness ==
    /\ driver = "merge" /\ merge_fn = "_deduplicate_documents" /\ merge_round = 2
    /\ Len(incoming) = MaxMergeLen
    /\ Len(merged) >= 2
    /\ \E i \in DOMAIN incoming : incoming[i].id = 0
    /\ \E i \in DOMAIN incoming : \A j \in DOMAIN merged : merged[j] # incoming[i]
    /\ \E i \in DOMAIN incoming : \E j \in DOMAIN merged : merged[j] = incoming[i]

-----------------------------------------------------------------------------
(* Provenance *)

\* the document is among the documents of a result recorded for an agent
FromRecordedResult(d) ==
    \E a \in RetrievalAgents : HasRecord(a) /\ Contains(Recorded(a).documents, d)

\* the source entry was built from a document of a recorded result
SourceFromRecordedResult(s) ==
    \E a \in RetrievalAgents :
        /\ HasRecord(a)
        /\ \E i \in DOMAIN Recorded(a).documents : SourceOf(Recorded(a).documents[i]) = s

\* the source entries of the final output; the outputs of the PhaseExecutor
\* list none
FinalSources ==
    IF "sources" \in DOMAIN final_output THEN final_output.sources ELSE <<>>

\* C16: in every state of a run every document of the state's document
\* list, and every source of the final output, comes from the documents of
\* a RetrievalResult recorded for an agent of the run
C16_DocumentsFromRecordedResults ==
    /\ \A i \in DOMAIN retrieved_documents : FromRecordedResult(retrieved_documents[i])
    /\ \A i \in DOMAIN FinalSources : SourceFromRecordedResult(FinalSources[i])

\* the enrichment phase merged the documents of an external agent into the
\* documents of the internal agents
C16_Witness ==
    /\ driver = "phases" /\ pc = "done"
    /\ \E i, j \in DOMAIN retrieved_documents :
          /\ \E a \in InternalAgents :
                /\ a \in DOMAIN agent_outputs
                /\ Contains(agent_outputs[a].documents, retrieved_documents[i])
          /\ \E a \in ExternalAgents :
                /\ a \in DOMAIN agent_outputs
                /\ Contains(agent_outputs[a].documents, retrieved_documents[j])
                /\ \A b \in InternalAgents :
                      b \in DOMAIN agent_outputs =>
                          ~Contains(agent_outputs[b].documents, retrieved_documents[j])

\* the orchestrator returned a result that lists sources
C16_WitnessSources ==
    driver = "rag" /\ pc = "returned" /\ Len(FinalSources) >= 2

-----------------------------------------------------------------------------
(* The complexity tier *)

\* the run is in its planning phase
InPlan ==
    \/ driver = "phases" /\ pc \in {"plan", "planning"}
    \/ driver = "rag" /\ pc \in {"step1", "step1_wait"}

\* C17: the complexity tier of a request is decided once, by the step that
\* ends the planning phase: after planning the tier is the one the
\* analysis of the query gives, and no step of a later phase and no
\* retrieval agent changes it
C17_TierFixedAfterPlan ==
    /\ []((driver \in {"phases", "rag"} /\ ~InPlan /\ intent = "analyzed") =>
              complexity = DetermineComplexity(query))
    /\ [][complexity' # complexity => InPlan /\ ~InPlan']_vars

\* planning changed the tier, and the later phases and two retrieval agents
\* have run
C17_Witness ==
    /\ driver = "phases" /\ pc = "done"
    /\ entered["enrich"] = 1
    /\ complexity = "expert"
    /\ \E a, b \in RetrievalAgents : a # b /\ task[a].st = "done" /\ task[b].st = "done"

-----------------------------------------------------------------------------
(* Planning failures *)

\* the analysis of the query failed: the planner returned its error result,
\* or the planning phase raised
AnalysisFailed ==
    /\ driver = "phases"
    /\ \/ /\ "query_planning" \in DOMAIN agent_outputs
          /\ agent_outputs["query_planning"].error # "none"
       \/ \E i \in DOMAIN errors : errors[i].src = "Query processing error"

\* C18: when the analysis of the query fails during planning, the strategy
\* in effect after planning is the minimal fallback strategy, which names
\* exactly one default agent, and the pipeline goes on to coordination
C18_FallbackStrategyOnFailure ==
    (AnalysisFailed /\ ~InPlan) =>
        /\ strategy = GetFallbackStrategy
        /\ Len(strategy.parallel_agents) = 1
        /\ pc = "coordinate" \/ entered["coordinate"] >= 1

-----------------------------------------------------------------------------
(* Coordination *)

\* the coordination phase has run
PastCoordinate == driver = "phases" /\ entered["coordinate"] >= 1

\* the agents of the strategy that are registered with the executor
RegisteredOfStrategy == SelectSeq(strategy.parallel_agents, LAMBDA a : a \in registered)

\* C19: after coordination the selected agents are not empty and all of
\* them are registered with the executor: they are the agents of the
\* strategy that are registered, or one default agent when none of the
\* strategy's agents is registered
C19_SelectedAreRegistered ==
    PastCoordinate =>
        /\ selected # <<>>
        /\ \A i \in DOMAIN selected : selected[i] \in registered
        /\ IF RegisteredOfStrategy # <<>>
           THEN selected = RegisteredOfStrategy
           ELSE Len(selected) = 1

-----------------------------------------------------------------------------
(* Refined queries of the tasks *)

\* a task has been created for the agent in this run
Spawned(a) == driver \in {"phases", "rag"} /\ task[a].st # "none"

\* C20: every agent task of the retrieval fan-out is bound to the refined
\* query the analysis of this request built for its agent, and to the
\* original query only when the analysis built none for that agent
C20_TasksUseRefinedQueries ==
    \A a \in RetrievalAgents :
        (Spawned(a) /\ intent = "analyzed") =>
            TaskQuery(a) = CreateStateForAgent(query, a, CreateRefinedQueries(query, complexity))

-----------------------------------------------------------------------------
(* Result caps *)

\* the documents of the state were handed to synthesis
HandedToSynthesis ==
    driver = "call" /\ call \in {"_apply_final_refinement", "phase4_synthesis"}

\* C21: the document list handed to synthesis and reported in the final
\* output is never longer than the cap of the tier, the caps grow with the
\* tier, and for the same input documents the expert list is never shorter
\* than the simple list
C21_CappedByTier ==
    /\ MaxDocs("simple") < MaxDocs("moderate")
    /\ MaxDocs("moderate") < MaxDocs("complex")
    /\ MaxDocs("complex") < MaxDocs("expert")
    /\ HandedToSynthesis =>
          /\ \A t \in Tiers : Len(ret[t]) <= MaxDocs(t)
          /\ Len(ret["expert"]) >= Len(ret["simple"])

-----------------------------------------------------------------------------
(* Bare queries *)

\* the analysis extracts no entity and no keyword, and the query has fewer
\* than ten tokens
Bare(q) == q.ents = 0 /\ q.kws = 0 /\ q.words < 10

\* the agents chosen for the retrieval fan-out, once they are chosen
AgentsChosen ==
    \/ driver = "phases" /\ entered["coordinate"] >= 1
    \/ driver = "rag" /\ entered["step2"] >= 1

ChosenAgents == IF driver = "rag" THEN fanout ELSE selected

\* C22: a query without extractable entities or keywords and with fewer
\* than ten tokens gets the simple tier, exactly one agent is selected for
\* its retrieval, and its final result holds at most the simple cap of
\* documents
C22_BareQueryIsSimple ==
    (driver \in {"phases", "rag"} /\ Bare(query) /\ intent = "analyzed") =>
        /\ ~InPlan => complexity = "simple"
        /\ AgentsChosen => Len(ChosenAgents) = 1
        /\ Terminated => Len(retrieved_documents) <= MaxDocs("simple")

-----------------------------------------------------------------------------
(* Complexity scoring *)

\* the place of a tier in the order simple, moderate, complex, expert
TierRank(t) ==
    CASE t = "simple" -> 1 [] t = "moderate" -> 2 [] t = "complex" -> 3 [] t = "expert" -> 4

\* C23: with the intent type fixed, a query with at least as many entities,
\* keywords and words as another never gets a lower tier in the order
\* simple, moderate, complex, expert
C23_ScoringMonotonic ==
    (driver = "call" /\ call = "_determine_complexity") =>
        TierRank(ret.a) <= TierRank(ret.b)

\* more entities, keywords and words raised the tier from simple to expert
C23_Witness ==
    /\ driver = "call" /\ call = "_determine_complexity"
    /\ args.a.ents < args.b.ents /\ args.a.kws < args.b.kws /\ args.a.words < args.b.words
    /\ ret.a = "simple" /\ ret.b = "expert"

-----------------------------------------------------------------------------
(* The gate and the confidence *)

GateApplied ==
    driver = "call" /\ call \in {"quality_check_node", "_needs_external_sourcing"}

\* C24: with the document count, the tier and the query fixed, an average
\* confidence lowered from at or above the threshold to below it makes
\* needs_enrichment true, and a lower average confidence never turns
\* needs_enrichment from true to false
C24_LowerConfidenceNeedsEnrichment ==
    GateApplied =>
        /\ (args.hi >= CONFIDENCE_THRESHOLD /\ args.lo < CONFIDENCE_THRESHOLD) => ret.lo
        /\ ret.hi => ret.lo

\* the lower confidence turned the gate from false to true
C24_Witness ==
    /\ driver = "call" /\ call = "_needs_external_sourcing"
    /\ args.hi >= CONFIDENCE_THRESHOLD /\ args.lo < CONFIDENCE_THRESHOLD
    /\ ~ret.hi /\ ret.lo

\* the same for the gate of the PhaseExecutor
C24_WitnessPhases ==
    /\ driver = "call" /\ call = "quality_check_node"
    /\ args.hi >= CONFIDENCE_THRESHOLD /\ args.lo < CONFIDENCE_THRESHOLD
    /\ ~ret.hi /\ ret.lo

-----------------------------------------------------------------------------
(* Synthesis *)

\* the number of calls of the language model the synthesis made
CallsIssued == ret.sub_calls + ret.final_calls

\* a call of the language model that the synthesis made has failed
SomeCallFailed ==
    /\ driver = "call" /\ call = "synthesize"
    /\ \E i \in 1..CallsIssued : args.responses[i] = "fail"

\* C25: whatever the tier, when a call of the language model fails the
\* synthesis returns the rule-based summary built from the single document
\* of highest relevance, with the fixed low confidence
C25_FallbackOnModelFailure ==
    (SomeCallFailed /\ args.n > 0) =>
        /\ ret.kind = "rule_based"
        /\ ret.llm_confidence = FALLBACK_CONFIDENCE
        /\ \A i \in 1..args.n : NumberedDocs(args.n)[i].rel <= ret.top_doc.rel

\* C27: the synthesis is dispatched on the tier alone: the simple and the
\* moderate strategy make exactly one call of the language model, the
\* complex and the expert strategy make several specialized sub-calls and
\* then one final call that combines their outputs
C27_DispatchByTier ==
    (driver = "call" /\ call = "synthesize") =>
        /\ args.complexity \in {"simple", "moderate"} =>
               ret.sub_calls = 0 /\ ret.final_calls = 1
        /\ args.complexity \in {"complex", "expert"} =>
               ret.sub_calls >= 2 /\ ret.final_calls = 1

\* the final confidence was computed for two runs with the same synthesis
\* confidence
FinalConfidenceComputed ==
    driver = "call" /\ call \in {"_create_synthesis_result", "_generate_final_output"}

\* C26: the final confidence returned to the caller depends on the agents'
\* retrieval confidences too: two runs that differ only in the agents'
\* confidences return different final confidences
C26_AgentConfidencesCount ==
    (FinalConfidenceComputed /\ args.run_a # args.run_b) => ret.a # ret.b

\* a call of initialize ends in this step
InitializeEnds ==
    last_op' \in {"initialize_done", "initialize_returned", "initialize_raised"}

\* C28: initialize on an already initialized registry is a no-op, however
\* often it is repeated: it constructs no tool instance and leaves the
\* registered tools and the sessions held as they are
C28_InitializeIdempotent ==
    [][(driver = "registry" /\ registry.initialized /\ InitializeEnds) =>
           /\ last_op' = "initialize_returned"
           /\ UNCHANGED <<registry, sessions, handles>>]_vars

\* initialize has returned early on a registry one of whose tools holds an
\* open session
C28_Witness ==
    /\ driver = "registry"
    /\ registry.initialized
    /\ last_op = "initialize_returned"
    /\ \E t \in registry.tool_instances :
         HoldsSession(t) /\ handles[t] # 0 /\ sessions[handles[t]].closes = 0

\* what the settings must say for a tool to be registered: its credentials
\* are present and its feature flag is set; irs_api has neither
ToolConfigured(cfg, t) ==
    CASE t \in {"brave_search", "llm_enhancer"} -> cfg[t]
      [] t \in SpecializedTools                 -> cfg.specialized_tools
      [] OTHER                                  -> TRUE

\* C29: initialize registers a tool only if its credentials are present and
\* its feature flag is set; a tool without them is missing from the tool map
\* returned for every agent
C29_OnlyConfiguredToolsRegistered ==
    (driver = "registry" /\ registry.initialized) =>
        /\ \A t \in registry.tools : ToolConfigured(settings, t)
        /\ \A a \in ToolUsers : \A t \in GetToolsForAgent(registry, a) :
               ToolConfigured(settings, t)

\* the refined queries were built and sent
StrategyCreated == driver = "call" /\ call = "_create_strategy"

\* C30: whatever the query, every refined query has at most 390 characters
\* and every query string sent to the search provider has at most 400
C30_QueryLengthsBounded ==
    StrategyCreated =>
        /\ \A a \in DOMAIN ret.refined : ret.refined[a] <= REFINED_QUERY_LIMIT
        /\ \A a \in DOMAIN ret.sent : ret.sent[a] <= MAX_QUERY_LENGTH

\* a refined query was cut at 390 characters, the search query made of it
\* was longer than 400 characters, and what was sent was not
C30_Witness ==
    /\ StrategyCreated
    /\ \E a \in DOMAIN ret.sent :
         /\ ret.refined[a] = REFINED_QUERY_LIMIT
         /\ ret.asked[a] > MAX_QUERY_LENGTH
         /\ ret.sent[a] <= MAX_QUERY_LENGTH

\* a task of the running fan-out has not ended
InFlight == \E a \in DOMAIN task : task[a].st = "pending"

\* the keys of a dictionary of the state that a step sets or changes
Written(old, new) ==
    {k \in DOMAIN new : k \notin DOMAIN old \/ new[k] # old[k]}

\* the step is the join of a fan-out of the phase executor
JoinStep == pc \in {"retrieve_join", "enrich_join"} /\ pc' # pc

\* C31: while tasks of a fan-out are in flight the document list, the
\* confidence map, the agent-output map and the error list of the state
\* are unchanged; the join writes them after every task has ended, and an
\* agent's result and confidence go to the slot of that agent's name only
C31_StateWrittenAtJoinOnly ==
    [][/\ InFlight =>
              UNCHANGED <<retrieved_documents, confidence_scores,
                          agent_outputs, errors>>
       /\ JoinStep =>
              /\ \A a \in Written(agent_outputs, agent_outputs') :
                     /\ Contains(fanout, a)
                     /\ agent_outputs'[a].documents = task[a].res.documents
              /\ \A a \in Written(confidence_scores, confidence_scores') :
                     /\ Contains(fanout, a)
                     /\ confidence_scores'[a] = agent_outputs'[a].confidence]_vars

\* one task of the fan-out has returned documents, a sibling is still
\* running, and the state holds nothing of the fan-out yet
C31_Witness ==
    /\ driver = "phases" /\ pc = "retrieve_join"
    /\ \E a, b \in DOMAIN task :
         /\ task[a].st = "done" /\ task[a].res.kind = "result"
         /\ task[a].res.documents # <<>>
         /\ task[b].st = "pending"
         /\ a \notin DOMAIN agent_outputs
    /\ retrieved_documents = <<>>

\* C32: the timeout of an agent runs from the start of its own task: an
\* agent is not running once its timeout has elapsed, a result is returned
\* within the timeout, and an agent is cancelled at its own expiry, whatever
\* its siblings do
C32_TimeoutPerAgent ==
    driver = "timing" =>
        \A a \in Range(TimedAgents) :
            /\ Running(a) => timing.now <= AGENT_TIMEOUT
            /\ timing.st[a] = "returned" => timing.ended[a] <= AGENT_TIMEOUT
            /\ timing.st[a] = "cancelled" => timing.ended[a] = AGENT_TIMEOUT

\* C33: under every interleaving of searches and session closes on the
\* shared search tool at most one session is open, and no search in flight
\* uses a session that was closed or set to None
C33_SessionSafeForConcurrentUse ==
    driver = "sessions" =>
        /\ Cardinality(net.open) <= 1
        /\ \A t \in SearchTasks :
               net.pc[t] = "request" => net.using[t] \in net.open

\* C36: once cleanup() of the registry has completed no session of a tool
\* is open, and none stays open: a callable obtained before cleanup() and
\* invoked after or during it leaves no session that a later cleanup() does
\* not close
C36_NoSessionAfterCleanup ==
    (driver = "sessions" /\ net.cleanups > 0 /\ net.closer = "idle") =>
        net.open = {}

\* the results of the tasks of the fan-out, by agent
TaskResults == [a \in Range(fanout) |-> task[a].res]

\* C34: the documents aggregated after a fan-out are a function of the
\* agents' results and of the agents' position or priority: the order in
\* which the tasks ended has no part in them
C34_AggregationIgnoresCompletionOrder ==
    [][/\ (pc = "retrieve_join" /\ pc' # pc) =>
              retrieved_documents' =
                  DeduplicateDocuments(DocumentsOfResults(fanout, agent_outputs'))
       /\ (pc = "enrich_join" /\ pc' # pc) =>
              retrieved_documents' =
                  IF DocumentsOfResults(fanout, TaskResults) = <<>>
                  THEN retrieved_documents
                  ELSE DeduplicateDocuments(
                           retrieved_documents \o DocumentsOfResults(fanout, TaskResults))
       /\ (driver = "rag" /\ pc = "step5" /\ pc' # pc) =>
              retrieved_documents' =
                  ApplyFinalRefinement(
                      ConsolidateResults(CompletionOrder(fanout, task), vector_results),
                      complexity)]_vars

\* the documents of two agents were aggregated after a fan-out in which the
\* agent later in the list ended first
C34_Witness ==
    /\ pc \in {"quality", "returned"}
    /\ \E i, j \in DOMAIN fanout :
         /\ i < j
         /\ task[fanout[j]].seq < task[fanout[i]].seq
         /\ task[fanout[i]].res.documents # <<>>
         /\ task[fanout[j]].res.documents # <<>>
    /\ retrieved_documents # <<>>

-----------------------------------------------------------------------------
(* C35 *)

\* get_tools_for_agent raises RuntimeError("Function tools not initialized")
\* on the registry `reg`
RaisesNotInitialized(reg) == ~reg.initialized

\* C35: every registry that get_function_tool_registry returns is
\* initialized: whatever calls came before, one that raised in initialize()
\* included, a call that returns gives a registry on which
\* get_tools_for_agent does not raise "Function tools not initialized".
C35_ReturnedRegistryInitialized ==
    (driver = "registry" /\ last_op = "get_returned") =>
        ~RaisesNotInitialized(registry)

\* the first call of get_function_tool_registry, the one that constructs the
\* registry, returns it initialized
C35_FirstCallInitializes ==
    [][(driver = "registry" /\ ~singleton /\ last_op' = "get_returned")
           => registry'.initialized]_vars

-----------------------------------------------------------------------------
(* C37 *)

\* C37: in a run of the workflow graph the requery loop (quality_check to
\* requery to parallel_retrieval) is taken at most MAX_REQUERY_ATTEMPTS
\* times
C37_RequeryLoopBounded ==
    (driver = "graph") => requery_count <= MAX_REQUERY_ATTEMPTS

\* a run whose state does not ask for a requery never enters the loop: the
\* conditional edge sends it from quality_check to synthesis
C37_NoRequeryNoLoop ==
    (driver = "graph" /\ ~needs_requery) => (requery_count = 0 /\ pc # "requery")

-----------------------------------------------------------------------------
(* C38 *)

\* the internal retrieval agents that ran in the retrieval phase and left a
\* confidence
RetrievalScored == DOMAIN confidence_scores \cap InternalAgents

\* the mean of the confidences of the agents `keys`
MeanOver(scores, keys) ==
    IF keys = {} THEN 0 ELSE SumOver(scores, keys) \div Cardinality(keys)

\* C38: the average confidence the quality gate compares with the threshold
\* is the mean over exactly the internal retrieval agents that ran in the
\* retrieval phase; the confidence of the planning agent and those of the
\* external agents are not part of it
C38_AverageOverRetrievalAgents ==
    (driver = "phases" /\ quality_check.set) =>
        quality_check.average_confidence = MeanOver(confidence_scores, RetrievalScored)

\* the confidences of the external agents are not part of the average
C38_ExternalScoresLeftOut ==
    (driver = "phases" /\ quality_check.set) =>
        quality_check.average_confidence =
            MeanOver(confidence_scores, DOMAIN confidence_scores \ ExternalAgents)

-----------------------------------------------------------------------------
(* C39 *)

\* a call of process in which should_use_function_tools returned false
ProcessWithoutTools ==
    driver = "call" /\ call = "process" /\ ~ret.used_function_tools

\* the result the internal documents alone give: the agent's ranked internal
\* documents with the confidence computed from them
InternalResult(agent, internal_docs) ==
    LET ranked == MergeAndRank(agent, FilteredDocs(agent, internal_docs))
    IN  Result(ranked, CalculateConfidence(agent, ranked), "none")

\* C39: for every internal retrieval agent, when should_use_function_tools
\* returns false, process calls no tool and returns the agent's ranked
\* internal documents with the confidence computed from them, not the
\* zero-confidence empty error result
C39_InternalResultWithoutTools ==
    ProcessWithoutTools =>
        /\ ~ret.tools_called
        /\ ret.result = InternalResult(args.agent, args.internal_docs)

\* the same for the agents other than ExpertAgent
C39_OtherAgentsReturnInternalResult ==
    (ProcessWithoutTools /\ args.agent # "ExpertAgent") =>
        /\ ~ret.tools_called
        /\ ret.result = InternalResult(args.agent, args.internal_docs)
        /\ ret.result.error = "none"

\* ExpertAgent returns the error result whenever it does not use the tools
C39_ExpertAlwaysFailsWithoutTools ==
    (ProcessWithoutTools /\ args.agent = "ExpertAgent") =>
        ret.result = Result(<<>>, 0, "exception")

=============================================================================
